---- MODULE Spec2Model ----
(***************************************************************************)
(* Model of the Ant build execution engine of ant-build-menu:              *)
(*   src/main.py              AntBuildGUI (UI thread: start_build,         *)
(*                            cancel_build, build_completed, build_error;  *)
(*                            worker thread: run_build)                    *)
(*   src/src/ant_executor.py  AntExecutor.execute_ant_command_realtime     *)
(*                            (worker thread and the two reader threads)   *)
(*   src/src/logger.py        AntBuildLogger                               *)
(* Threads are interleaved at the granularity of the shared reads and      *)
(* writes: the UI thread runs one Tk callback at a time, cancel_build      *)
(* blocks it while it waits for the child; every worker and reader thread  *)
(* runs concurrently with it.                                              *)
(***************************************************************************)
EXTENDS Integers, Sequences, FiniteSets, TLC

\* Number of builds the user may start in one run of the window (Spec).
MaxBuilds == 2

\* The same, for a window the user starts a single build in (SpecOne).
MaxRuns == 1

\* Lines the child writes to each of its two pipes (SpecStreams).
MaxLines == 2

\* Length of the byte strings handed to decode_bytes (SpecDecode).
MaxBytes == 3

\* Pieces in the option variables of the inherited environment (SpecChildEnv).
MaxChars == 5

\* Elements below the root of build.xml (SpecParse).
MaxElements == 3

\* Calls of set, get, save and the root getters on a configuration (SpecConfig,
\* SpecSettings, SpecHome)
MaxCalls == 3

Inv == 1..MaxBuilds
Streams == {"out", "err"}

\* AntExecutor.timeout: config.get('ant_config.timeout_seconds', 300)
timeout_seconds == 300

VARIABLES
    is_building,      \* AntBuildGUI.is_building
    current_process,  \* AntBuildGUI.current_process: 0 is None, i the Popen of build i
    build_logger,     \* AntBuildGUI.build_logger: 0 is None, i the logger of build i
    status,           \* AntBuildGUI.status_var
    nbuilds,          \* builds started so far; build nbuilds is the latest one
    ui_pc,            \* where the UI thread is inside cancel_build, or "idle"
    cancel_seen,      \* cancel_build has passed its guard since the window opened
    controls,         \* state of build_button, cancel_button, target_combo, progress
    afterq,           \* callbacks queued on the UI thread by root.after(0, ...)
    wpc,              \* position of the worker thread of each build
    child,            \* the child process of each build
    rd,               \* the two reader threads of each build
    joined,           \* the readers the worker has waited for with join(timeout=5)
    sink,             \* summary messages the executor passed to output_callback
    result,           \* what execute_ant_command_realtime returned to run_build
    siglog,           \* terminate()/kill() calls made on each Popen object, in order
    reports,          \* outcomes the GUI callbacks reported, per build
    logs,             \* build-level calls received by the AntBuildLogger of each
                      \* build: start, success, failure, finalize
    \* One run of execute_ant_command_realtime, line by line (SpecStreams):
    proc,             \* the child: "none", "alive", "exit0", "exit1", "killed"
    emitted,          \* the lines the child has written to each pipe, in order
    pipe,             \* the lines written to each pipe and not yet read
    thread,           \* stdout_thread / stderr_thread: "none", "run", "done", "failed"
    events,           \* the calls output_callback(text, is_error) received, in order
    epc,              \* position of execute_ant_command_realtime
    wopen,            \* the pipes the child (or a process it left behind) holds open
    rclosed,          \* the pipes closed by their reader: process.stdout/stderr.close()
    \* One call of decode_bytes (SpecDecode):
    byte_data,        \* the argument, a sequence of byte values
    line,             \* the string returned, a sequence of code points
    dpc,              \* "idle", "call", "returned" or "raised"
    \* The toolchain roots (SpecEnv):
    paths,            \* Config: the values of 'paths.java_home' and 'paths.ant_home'
    environ,          \* os.environ
    disk,             \* the paths that exist
    ant_home,         \* AntExecutor.ant_home
    java_home,        \* AntExecutor.java_home
    validated,        \* what validate_environment returned to the last invocation
    used,             \* the roots the last invocation validated
    launched,         \* the roots the last invocation launched the child with
    tpc,              \* "idle", "new" (no AntExecutor yet), "ready", "invoked"
    \* The launch (SpecCommand, SpecChildEnv):
    selected,         \* the choice shown in the target box
    selected_target,  \* AntBuildGUI.selected_target
    build_file,       \* AntBuildGUI.build_file
    cmd,              \* the argument list handed to Popen
    env,              \* the environment handed to Popen
    lpc,              \* position of the launch
    \* One call of parse_build_file (SpecParse):
    build_xml,        \* the file at the path build_file
    build_info,       \* AntBuildGUI.build_info: the dictionary returned
    ppc,              \* "idle", "call" or "returned"
    \* The configuration (SpecConfig):
    cfg,              \* Config._config of each instance, and whether it is constructed
    settings,         \* the file at Config._config_file
    writable,         \* whether that file can be opened for writing
    saved,            \* what the last call of save() had to write
    lastcall,         \* the last call on a Config: its arguments and its outcome
    ncalls            \* the number of calls made

vars == <<is_building, current_process, build_logger, status, nbuilds, ui_pc,
          cancel_seen, controls, afterq, wpc, child, rd, joined, sink, result, siglog, reports,
          logs>>

streamv == <<proc, emitted, pipe, thread, events, epc, wopen, rclosed>>

\* The variables of the detailed specifications, which the window leaves alone.
decodev == <<byte_data, line, dpc>>

toolv == <<paths, environ, disk, ant_home, java_home, validated, used, launched, tpc>>

launchv == <<selected, selected_target, build_file, cmd, env, lpc>>

parsev == <<build_xml, build_info, ppc>>

confv == <<cfg, settings, writable, saved, lastcall, ncalls>>

aux == <<streamv, decodev, toolv, launchv, parsev, confv>>

allvars == <<vars, aux>>

gui    == <<is_building, current_process, build_logger, status, nbuilds, ui_pc,
           cancel_seen, controls>>
procs  == <<child, siglog>>
worker == <<wpc, rd, joined, sink, result>>

Alive(i) == child[i] = "alive"
Dead(i)  == child[i] \in {"exit0", "exit1", "reaped"}

\* The four controls as setup_ui creates them and as build_completed,
\* build_error and cancel_build leave them.
ControlsReady ==
    [build_button |-> "normal", cancel_button |-> "disabled",
     target_combo |-> "readonly", progress |-> "stopped"]

\* The four controls as start_build leaves them.
ControlsBuilding ==
    [build_button |-> "disabled", cancel_button |-> "normal",
     target_combo |-> "disabled", progress |-> "running"]

Init ==
    /\ is_building = FALSE
    /\ controls = ControlsReady
    /\ current_process = 0
    /\ build_logger = 0
    /\ status = "ready"
    /\ nbuilds = 0
    /\ ui_pc = "idle"
    /\ cancel_seen = FALSE
    /\ afterq = <<>>
    /\ wpc = [i \in Inv |-> "idle"]
    /\ child = [i \in Inv |-> "none"]
    /\ rd = [i \in Inv |-> [s \in Streams |-> "none"]]
    /\ joined = [i \in Inv |-> {}]
    /\ sink = [i \in Inv |-> {}]
    /\ result = [i \in Inv |-> "none"]
    /\ siglog = [i \in Inv |-> <<>>]
    /\ reports = [i \in Inv |-> <<>>]
    /\ logs = [i \in Inv |-> <<>>]

----------------------------------------------------------------------------
(* Popen.terminate() and Popen.kill() on the handle h, called by `by` (the  *)
(* UI thread in cancel_build, or the worker of the build).  A call on a     *)
(* process that is already dead delivers nothing.  A delivered              *)
(* terminate ends the child or is ignored by it; a delivered kill ends it.  *)
(* A child ended by a signal has a non-zero return code, here "exit1".      *)

SigCall(by, sig) == <<by, sig>>

Terminate(by, h) ==
    /\ siglog' = [siglog EXCEPT ![h] = Append(@, SigCall(by, "term"))]
    /\ \/ child' = child
       \/ Alive(h) /\ child' = [child EXCEPT ![h] = "exit1"]

Kill(by, h) ==
    /\ siglog' = [siglog EXCEPT ![h] = Append(@, SigCall(by, "kill"))]
    /\ child' = IF Alive(h) THEN [child EXCEPT ![h] = "exit1"] ELSE child

\* The child ends by itself with exit status 0 or 1.
ChildExit(i) ==
    /\ Alive(i)
    /\ \E c \in {"exit0", "exit1"} : child' = [child EXCEPT ![i] = c]
    /\ UNCHANGED <<gui, afterq, worker, siglog, reports, logs>>

----------------------------------------------------------------------------
(* AntBuildLogger: the calls a logger receives.                             *)

LogTo(l, calls) == logs' = [logs EXCEPT ![l] = @ \o calls]

\* "if self.build_logger: <calls>; finalize(); self.build_logger = None"
FinishLog(call) ==
    IF build_logger # 0
    THEN /\ LogTo(build_logger, <<call, "finalize">>)
         /\ build_logger' = 0
    ELSE UNCHANGED <<logs, build_logger>>

----------------------------------------------------------------------------
(* UI thread.                                                               *)

\* max: the number of builds the window may start.
start_build(max) ==
    /\ ui_pc = "idle"
    /\ IF is_building
       THEN UNCHANGED vars
       ELSE \E valid \in BOOLEAN :
              IF ~valid
              THEN UNCHANGED vars
              ELSE /\ nbuilds < max
                   /\ nbuilds' = nbuilds + 1
                   /\ is_building' = TRUE
                   /\ controls' = ControlsBuilding
                   /\ status' = "building"
                   /\ build_logger' = nbuilds + 1
                   /\ logs' = [logs EXCEPT ![nbuilds + 1] = <<"start">>]
                   /\ wpc' = [wpc EXCEPT ![nbuilds + 1] = "validate"]
                   /\ UNCHANGED <<current_process, ui_pc, cancel_seen, afterq,
                                  procs, rd, joined, sink, result, reports>>

\* The tail of cancel_build without the reset of the four controls.
CancelReport_keep_controls ==
    /\ is_building' = FALSE
    /\ controls' = controls
    /\ status' = "cancelled"
    /\ reports' = [reports EXCEPT ![nbuilds] = Append(@, "cancelled")]
    /\ FinishLog("failure")
    /\ ui_pc' = "idle"

\* The tail of cancel_build: "构建已取消", the reset of the state, the log.
CancelReport ==
    /\ is_building' = FALSE
    /\ controls' = ControlsReady
    /\ status' = "cancelled"
    /\ reports' = [reports EXCEPT ![nbuilds] = Append(@, "cancelled")]
    /\ FinishLog("failure")
    /\ ui_pc' = "idle"

\* cancel_build with kill() in the place of terminate().
cancel_build_kill ==
    /\ ui_pc = "idle"
    /\ IF is_building /\ current_process # 0
       THEN /\ Kill("ui", current_process)
            /\ status' = "cancelling"
            /\ ui_pc' = "cancel_wait"
            /\ cancel_seen' = TRUE
            /\ UNCHANGED <<is_building, current_process, build_logger, nbuilds, controls,
                           afterq, worker, reports, logs>>
       ELSE UNCHANGED vars

\* cancel_build up to the wait: the guard, then terminate() on current_process.
cancel_build ==
    /\ ui_pc = "idle"
    /\ IF is_building /\ current_process # 0
       THEN /\ Terminate("ui", current_process)
            /\ status' = "cancelling"
            /\ ui_pc' = "cancel_wait"
            /\ cancel_seen' = TRUE
            /\ UNCHANGED <<is_building, current_process, build_logger, nbuilds, controls,
                           afterq, worker, reports, logs>>
       ELSE UNCHANGED vars

\* current_process.wait(timeout=5) returns: the process it waits for has ended.
cancel_wait_done ==
    /\ ui_pc = "cancel_wait"
    /\ Dead(current_process)
    /\ CancelReport
    /\ UNCHANGED <<current_process, nbuilds, cancel_seen, afterq, procs, worker>>

\* current_process.wait(timeout=5) raises TimeoutExpired.
cancel_wait_timeout ==
    /\ ui_pc = "cancel_wait"
    /\ Alive(current_process)
    /\ ui_pc' = "cancel_kill"
    /\ UNCHANGED <<is_building, current_process, build_logger, status, nbuilds,
                   cancel_seen, controls, afterq, procs, worker, reports, logs>>

\* The except branch: current_process.kill(), then the tail of cancel_build.
cancel_kill ==
    /\ ui_pc = "cancel_kill"
    /\ Kill("ui", current_process)
    /\ CancelReport
    /\ UNCHANGED <<current_process, nbuilds, cancel_seen, afterq, worker>>

build_completed(i, success) ==
    /\ is_building' = FALSE
    /\ current_process' = 0
    /\ controls' = ControlsReady
    /\ status' = IF success THEN "success" ELSE "failed"
    /\ reports' = [reports EXCEPT ![i] = Append(@, IF success THEN "success" ELSE "failed")]
    /\ FinishLog(IF success THEN "success" ELSE "failure")

build_error(i) ==
    /\ is_building' = FALSE
    /\ current_process' = 0
    /\ controls' = ControlsReady
    /\ status' = "error"
    /\ reports' = [reports EXCEPT ![i] = Append(@, "error")]
    /\ FinishLog("failure")

\* The Tk main loop runs the oldest callback queued with root.after(0, ...).
run_after ==
    /\ ui_pc = "idle"
    /\ afterq # <<>>
    /\ LET cb == Head(afterq) IN
         IF cb.kind = "completed"
         THEN build_completed(cb.inv, cb.success)
         ELSE build_error(cb.inv)
    /\ afterq' = Tail(afterq)
    /\ UNCHANGED <<nbuilds, ui_pc, cancel_seen, procs, worker>>

----------------------------------------------------------------------------
(* Worker thread of build i: run_build, which calls                         *)
(* execute_ant_command_realtime.  output_callback(line, is_error) first     *)
(* hands the line to the GUI (append_output), then reads self.build_logger  *)
(* twice: once in "if self.build_logger:" and once more to call log_output. *)
(* The UI thread may set build_logger to None between the two reads; the    *)
(* call then raises AttributeError in the calling thread.  A step of the    *)
(* worker is one access to state it shares with another thread, together    *)
(* with the statements before it that touch only the worker's own state.    *)

At(i, pc) == wpc[i] = pc
Goto(i, pc) == wpc' = [wpc EXCEPT ![i] = pc]
Say(i, msg) == sink' = [sink EXCEPT ![i] = @ \cup {msg}]

\* execute_ant_command_realtime returns (success, t); run_build then queues
\* build_completed on the UI thread.  zero: the elapsed time returned is 0.0.
Return(i, success, zero) ==
    /\ Goto(i, "done")
    /\ result' = [result EXCEPT ![i] =
                    IF success THEN "ok" ELSE IF zero THEN "fail0" ELSE "fail"]
    /\ afterq' = Append(afterq, [kind |-> "completed", inv |-> i, success |-> success])

\* The exception leaves execute_ant_command_realtime; run_build catches it and
\* queues build_error on the UI thread.
Raise(i) ==
    /\ Goto(i, "done")
    /\ result' = [result EXCEPT ![i] = "raised"]
    /\ afterq' = Append(afterq, [kind |-> "error", inv |-> i, success |-> FALSE])

\* First half of output_callback(msg): append_output, "if self.build_logger:".
\* With no logger the callback is over and the worker returns; otherwise the
\* worker is about to call log_output, at `use`.
CbCheck(i, msg, use, success, zero) ==
    /\ Say(i, msg)
    /\ IF build_logger = 0
       THEN Return(i, success, zero)
       ELSE Goto(i, use) /\ UNCHANGED <<result, afterq>>

\* Second half: self.build_logger.log_output(line, is_error), then the return.
\* inTry: the call is inside the try block, whose handler reports the error;
\* otherwise the AttributeError leaves execute_ant_command_realtime.
CbUse(i, use, inTry, success, zero) ==
    /\ At(i, use)
    /\ IF build_logger = 0
       THEN IF inTry
            THEN Goto(i, "err_cb") /\ UNCHANGED <<result, afterq>>
            ELSE Raise(i)
       ELSE Return(i, success, zero)
    /\ UNCHANGED <<gui, procs, rd, joined, sink, reports, logs>>

\* validate_environment(); when it fails output_callback("环境验证失败: ...")
\* and return False, 0.0; otherwise the command and environment are built and
\* output_callback("执行Ant命令: ...") is called.
w_validate(i) ==
    /\ At(i, "validate")
    /\ \E valid \in BOOLEAN :
         IF valid
         THEN /\ Goto(i, IF build_logger = 0 THEN "spawn" ELSE "pre_use")
              /\ UNCHANGED <<sink, result, afterq>>
         ELSE CbCheck(i, <<"envfail", 0>>, "env_use", FALSE, TRUE)
    /\ UNCHANGED <<gui, procs, rd, joined, reports, logs>>

w_env_use(i) == CbUse(i, "env_use", FALSE, FALSE, TRUE)

\* log_output of the command line; the worker goes on to Popen.
w_pre_use(i) ==
    /\ At(i, "pre_use")
    /\ Goto(i, IF build_logger = 0 THEN "err_cb" ELSE "spawn")
    /\ UNCHANGED <<gui, afterq, procs, rd, joined, sink, result, reports, logs>>

\* subprocess.Popen(...), process_callback(process), the two Thread.start().
\* Popen may raise (no child exists); Thread.start() may raise after the
\* child was started and handed to process_callback.
w_spawn(i) ==
    /\ At(i, "spawn")
    /\ \/ /\ Goto(i, "err_cb")
          /\ UNCHANGED <<child, current_process, rd>>
       \/ /\ child' = [child EXCEPT ![i] = "alive"]
          /\ current_process' = i
          /\ \/ /\ rd' = [rd EXCEPT ![i] = [s \in Streams |-> "run"]]
                /\ Goto(i, "wait")
             \/ /\ Goto(i, "err_cb")
                /\ UNCHANGED rd
    /\ UNCHANGED <<is_building, build_logger, status, nbuilds, ui_pc,
                   cancel_seen, controls, afterq, joined, sink, result, siglog, reports, logs>>

\* success for every return code.
Success_any(i) == Dead(i)

\* success = process.returncode == 0
Success(i) == child[i] = "exit0"

SummaryMessage(i) == IF Success(i) THEN <<"success", 0>> ELSE <<"failed", 0>>

\* The same with joins that have no timeout: the worker goes on only when
\* both readers have finished.
w_wait_done_join_forever(i) ==
    /\ At(i, "wait")
    /\ Dead(i)
    /\ \A s \in Streams : rd[i][s] = "done"
    /\ joined' = [joined EXCEPT ![i] = Streams]
    /\ CbCheck(i, SummaryMessage(i), "sum_use", Success(i), FALSE)
    /\ UNCHANGED <<gui, procs, rd, reports, logs>>

\* process.wait(timeout=self.timeout) returns: the child has ended.  Then
\* stdout_thread.join(timeout=5); stderr_thread.join(timeout=5), each of which
\* returns when its reader has finished or when the five seconds are over,
\* and output_callback("Ant构建成功 ..." / "Ant构建失败 ...").
w_wait_done(i) ==
    /\ At(i, "wait")
    /\ Dead(i)
    /\ joined' = [joined EXCEPT ![i] = Streams]
    /\ CbCheck(i, SummaryMessage(i), "sum_use", Success(i), FALSE)
    /\ UNCHANGED <<gui, procs, rd, reports, logs>>

w_sum_use(i) == CbUse(i, "sum_use", TRUE, Success(i), FALSE)

\* process.wait(timeout=self.timeout) raises TimeoutExpired.
w_wait_timeout(i) ==
    /\ At(i, "wait")
    /\ Alive(i)
    /\ Goto(i, "kill")
    /\ UNCHANGED <<gui, afterq, procs, rd, joined, sink, result, reports, logs>>

\* The timeout handler without process.kill().
w_kill_none(i) ==
    /\ At(i, "kill")
    /\ Goto(i, "tmo_cb")
    /\ UNCHANGED <<gui, afterq, procs, rd, joined, sink, result, reports, logs>>

\* except subprocess.TimeoutExpired: process.kill()
w_kill(i) ==
    /\ At(i, "kill")
    /\ Kill("worker", i)
    /\ Goto(i, "tmo_cb")
    /\ UNCHANGED <<gui, afterq, rd, joined, sink, result, reports, logs>>

TimeoutMessage == <<"timeout", timeout_seconds>>

\* output_callback("Ant构建超时 (超过{self.timeout}秒)", True); return False, t
w_tmo_cb(i) ==
    /\ At(i, "tmo_cb")
    /\ CbCheck(i, TimeoutMessage, "tmo_use", FALSE, FALSE)
    /\ UNCHANGED <<gui, procs, rd, joined, reports, logs>>

w_tmo_use(i) == CbUse(i, "tmo_use", TRUE, FALSE, FALSE)

\* except Exception: output_callback("执行Ant命令时发生错误: ...", True); return False, 0.0
w_err_cb(i) ==
    /\ At(i, "err_cb")
    /\ CbCheck(i, <<"error", 0>>, "err_use", FALSE, TRUE)
    /\ UNCHANGED <<gui, procs, rd, joined, reports, logs>>

w_err_use(i) == CbUse(i, "err_use", FALSE, FALSE, TRUE)

Worker(i) ==
    \/ w_validate(i)
    \/ w_env_use(i)
    \/ w_pre_use(i)
    \/ w_spawn(i)
    \/ w_wait_done(i)
    \/ w_sum_use(i)
    \/ w_wait_timeout(i)
    \/ w_kill(i)
    \/ w_tmo_cb(i)
    \/ w_tmo_use(i)
    \/ w_err_cb(i)
    \/ w_err_use(i)

----------------------------------------------------------------------------
(* Reader threads read_stdout and read_stderr of build i: each reads its    *)
(* pipe until end-of-file, which the pipe reaches once the child has ended. *)

reader_eof(i, s) ==
    /\ rd[i][s] = "run"
    /\ Dead(i)
    /\ rd' = [rd EXCEPT ![i][s] = "done"]
    /\ UNCHANGED <<gui, afterq, procs, wpc, joined, sink, result, reports, logs>>

----------------------------------------------------------------------------
(* One run of execute_ant_command_realtime line by line: what the child     *)
(* writes, what read_stdout and read_stderr read and hand to                *)
(* output_callback, and what the worker itself passes to output_callback.   *)
(* A text is <<origin, n>>: line n of the child's stdout ("out") or stderr  *)
(* ("err"), or message n of the executor ("exec").  An event is the call    *)
(* output_callback(text, is_error).                                         *)

\* The executor's own messages.
MsgCommand == <<"exec", 1>>       \* "🚀 执行Ant命令: ..."
MsgWorkDir == <<"exec", 2>>       \* "📂 工作目录: ..."
MsgSuccess == <<"exec", 3>>       \* "✅ Ant构建成功 ..."
MsgFailed  == <<"exec", 4>>       \* "❌ Ant构建失败 ..."
MsgTimeout == <<"exec", 5>>       \* "⏰ Ant构建超时 ..."
MsgError   == <<"exec", 6>>       \* "❌ 执行Ant命令时发生错误: ..."
MsgReadErr == <<"exec", 7>>       \* "读取输出时发生错误: ..." / "读取错误输出时发生错误: ..."

Event(text, is_error) == <<text, is_error>>

StreamInit ==
    /\ proc = "none"
    /\ emitted = [s \in Streams |-> <<>>]
    /\ pipe = [s \in Streams |-> <<>>]
    /\ thread = [s \in Streams |-> "none"]
    /\ events = <<>>
    /\ epc = "pre"
    /\ wopen = [s \in Streams |-> FALSE]
    /\ rclosed = [s \in Streams |-> FALSE]

DecodeInit ==
    /\ byte_data = <<>>
    /\ line = <<>>
    /\ dpc = "idle"

\* Python's None, as returned by get_ant_home / get_java_home.
None == <<"None">>

ToolInit ==
    /\ paths = [r \in {"java", "ant"} |-> <<>>]
    /\ environ = <<>>
    /\ disk = {}
    /\ ant_home = None
    /\ java_home = None
    /\ validated = <<>>
    /\ used = <<>>
    /\ launched = <<>>
    /\ tpc = "idle"

LaunchIdle ==
    /\ selected = <<>>
    /\ selected_target = <<>>
    /\ build_file = <<>>
    /\ cmd = <<>>
    /\ env = <<>>
    /\ lpc = "idle"

ParseIdle ==
    /\ build_xml = <<>>
    /\ build_info = <<>>
    /\ ppc = "idle"

\* A value of the configuration (what json.load returns, what set is given)
\* is the function from the paths of keys below it to what is found there:
\* Mapping for a dictionary, else the value itself.  A value that is not a
\* dictionary has the empty path only.
Mapping == <<"{}">>
Leaf(x) == [p \in {<<>>} |-> x]
EmptyMap == Leaf(Mapping)

\* The two instances of test_config_save_load.
Instances == {"config1", "config2"}

\* No call made yet / a call that came back without exception.
NoExc == "None"
NoCall ==
    [op |-> "none", on |-> "config1", key |-> <<>>, arg |-> Leaf(None),
     exc |-> NoExc, out |-> Leaf(None)]

ConfIdle ==
    /\ cfg = [i \in Instances |-> [built |-> FALSE, tree |-> EmptyMap]]
    /\ settings = [state |-> "missing", tree |-> EmptyMap]
    /\ writable = TRUE
    /\ saved = [called |-> FALSE, wrote |-> FALSE, tree |-> EmptyMap]
    /\ lastcall = NoCall
    /\ ncalls = 0

AuxInit == StreamInit /\ DecodeInit /\ ToolInit /\ LaunchIdle /\ ParseIdle /\ ConfIdle

\* The state after construction: the window is idle, nothing runs.
Start == Init /\ AuxInit

\* output_callback(text, is_error) as the executor sees it: the sink takes the
\* event.
Sink(text, is_error) == events' = Append(events, Event(text, is_error))

\* The two calls before Popen, Popen and the start of the two reader threads.
x_launch ==
    /\ epc = "pre"
    /\ events' = events \o <<Event(MsgCommand, FALSE), Event(MsgWorkDir, FALSE)>>
    /\ proc' = "alive"
    /\ thread' = [s \in Streams |-> "run"]
    /\ epc' = "wait"
    /\ wopen' = [s \in Streams |-> TRUE]
    /\ UNCHANGED <<emitted, pipe, rclosed>>

\* The child writes one more line to stdout or to stderr.
child_write(s) ==
    /\ proc = "alive"
    /\ wopen[s]
    /\ Len(emitted[s]) < MaxLines
    /\ LET written == <<s, Len(emitted[s]) + 1>> IN
         /\ emitted' = [emitted EXCEPT ![s] = Append(@, written)]
         /\ pipe' = [pipe EXCEPT ![s] = Append(@, written)]
    /\ UNCHANGED <<proc, thread, events, epc, wopen, rclosed>>

\* The child closes its stdout or its stderr and runs on.
child_close(s) ==
    /\ proc = "alive"
    /\ wopen[s]
    /\ wopen' = [wopen EXCEPT ![s] = FALSE]
    /\ UNCHANGED <<proc, emitted, pipe, thread, events, epc, rclosed>>

\* The ends of the pipes after the child has ended: closed, unless a process
\* the child started inherited one and still holds it.
Leftover == {w \in [Streams -> BOOLEAN] : \A s \in Streams : w[s] => wopen[s]}

\* The child exits by itself.
child_exit ==
    /\ proc = "alive"
    /\ \E c \in {"exit0", "exit1"} : proc' = c
    /\ wopen' \in Leftover
    /\ UNCHANGED <<emitted, pipe, thread, events, epc, rclosed>>

\* Both readers pass is_error=False.
Tag_normal(s) == FALSE

\* read_stdout passes is_error=False, read_stderr passes is_error=True.
Tag(s) == s = "err"

\* One turn of the loop of read_stdout / read_stderr: readline() returns the
\* oldest line of the pipe, the line is decoded and passed to
\* output_callback.  The sink may raise after it took the line (the GUI's
\* does, when build_logger is cleared between its two reads): the handler
\* of the reader passes its message to the sink and the thread ends.
reader_line(s) ==
    /\ thread[s] = "run"
    /\ pipe[s] # <<>>
    /\ pipe' = [pipe EXCEPT ![s] = Tail(@)]
    /\ \/ /\ Sink(Head(pipe[s]), Tag(s))
          /\ UNCHANGED thread
       \/ /\ events' = events \o <<Event(Head(pipe[s]), Tag(s)), Event(MsgReadErr, TRUE)>>
          /\ thread' = [thread EXCEPT ![s] = "failed"]
    /\ UNCHANGED <<proc, emitted, epc, wopen, rclosed>>

\* The reader ends as soon as the child has ended, whatever is left to read.
reader_end_early(s) ==
    /\ thread[s] = "run"
    /\ proc # "alive"
    /\ thread' = [thread EXCEPT ![s] = "done"]
    /\ rclosed' = [rclosed EXCEPT ![s] = TRUE]
    /\ UNCHANGED <<proc, emitted, pipe, events, epc, wopen>>

\* readline() returns b'': the pipe is drained and nobody holds its write
\* end.  The loop ends and the reader closes its end of the pipe.
reader_end(s) ==
    /\ thread[s] = "run"
    /\ pipe[s] = <<>>
    /\ ~wopen[s]
    /\ thread' = [thread EXCEPT ![s] = "done"]
    /\ rclosed' = [rclosed EXCEPT ![s] = TRUE]
    /\ UNCHANGED <<proc, emitted, pipe, events, epc, wopen>>

\* The wait that returns as soon as both readers have ended.
x_wait_done_readers ==
    /\ epc = "wait"
    /\ proc \in {"exit0", "exit1"} \/ \A s \in Streams : thread[s] # "run"
    /\ epc' = "join_out"
    /\ UNCHANGED <<proc, emitted, pipe, thread, events, wopen, rclosed>>

\* process.wait(timeout=self.timeout) returns: the child has exited.
x_wait_done ==
    /\ epc = "wait"
    /\ proc \in {"exit0", "exit1"}
    /\ epc' = "join_out"
    /\ UNCHANGED <<proc, emitted, pipe, thread, events, wopen, rclosed>>

\* stdout_thread.join(timeout=5), then stderr_thread.join(timeout=5): each
\* returns when its thread has ended, or after five seconds.
x_join(s, next) ==
    /\ epc = (IF s = "out" THEN "join_out" ELSE "join_err")
    /\ epc' = next
    /\ UNCHANGED <<proc, emitted, pipe, thread, events, wopen, rclosed>>

\* The summary and "return success, execution_time"; when the sink raises,
\* the handler of the outer try passes its message and returns False, 0.0.
x_summary ==
    /\ epc = "summary"
    /\ LET msg == IF proc = "exit0" THEN MsgSuccess ELSE MsgFailed IN
         \/ /\ Sink(msg, proc # "exit0")
            /\ epc' = (IF proc = "exit0" THEN "ret_ok" ELSE "ret_fail")
         \/ /\ events' = events \o <<Event(msg, proc # "exit0"), Event(MsgError, TRUE)>>
            /\ epc' = "ret_error"
    /\ UNCHANGED <<proc, emitted, pipe, thread, wopen, rclosed>>

\* process.wait raises TimeoutExpired: kill(), the timeout message, return.
x_timeout ==
    /\ epc = "wait"
    /\ proc = "alive"
    /\ proc' = "killed"
    /\ Sink(MsgTimeout, TRUE)
    /\ epc' = "ret_timeout"
    /\ wopen' \in Leftover
    /\ UNCHANGED <<emitted, pipe, thread, rclosed>>

StreamNext ==
    \/ UNCHANGED <<vars, decodev, toolv, launchv, parsev, confv>> /\ x_launch
    \/ UNCHANGED <<vars, decodev, toolv, launchv, parsev, confv>> /\ \E s \in Streams : child_write(s)
    \/ UNCHANGED <<vars, decodev, toolv, launchv, parsev, confv>> /\ \E s \in Streams : child_close(s)
    \/ UNCHANGED <<vars, decodev, toolv, launchv, parsev, confv>> /\ child_exit
    \/ UNCHANGED <<vars, decodev, toolv, launchv, parsev, confv>> /\ \E s \in Streams : reader_line(s)
    \/ UNCHANGED <<vars, decodev, toolv, launchv, parsev, confv>> /\ \E s \in Streams : reader_end(s)
    \/ UNCHANGED <<vars, decodev, toolv, launchv, parsev, confv>> /\ x_wait_done
    \/ UNCHANGED <<vars, decodev, toolv, launchv, parsev, confv>> /\ x_join("out", "join_err")
    \/ UNCHANGED <<vars, decodev, toolv, launchv, parsev, confv>> /\ x_join("err", "summary")
    \/ UNCHANGED <<vars, decodev, toolv, launchv, parsev, confv>> /\ x_summary
    \/ UNCHANGED <<vars, decodev, toolv, launchv, parsev, confv>> /\ x_timeout

\* One run of execute_ant_command_realtime with a child that writes up to
\* MaxLines lines to each pipe.
SpecStreams == Start /\ [][StreamNext]_allvars

----------------------------------------------------------------------------
(* decode_bytes(byte_data).  A byte is its value 0..255, a string is the    *)
(* sequence of its code points.  The codecs are those of Python on the      *)
(* bytes of Bytes: "A" (0x41), the two bytes of the UTF-8 form of U+00E9    *)
(* (0xC3 0xA9), each of which is also a lead and a trail byte of GBK, and   *)
(* 0xFF, which is valid in neither UTF-8 nor GBK.  A strict decoder         *)
(* returns [ok |-> TRUE, text |-> ...] or raises UnicodeDecodeError,        *)
(* [ok |-> FALSE, text |-> <<>>].                                           *)

Bytes == {65, 195, 169, 255}

ByteStrings == UNION {[1..n -> Bytes] : n \in 0..MaxBytes}

\* U+FFFD, the character errors='replace' puts in the place of bad bytes.
ReplacementChar == 65533

Raised == [ok |-> FALSE, text |-> <<>>]
Decoded(text) == [ok |-> TRUE, text |-> text]

IsContinuation(b) == b >= 128 /\ b <= 191
IsUtf8Lead2(b) == b >= 194 /\ b <= 223
IsGbkLead(b) == b >= 129 /\ b <= 254
IsGbkTrail(b) == b >= 64 /\ b <= 254 /\ b # 127

\* The code points of b under UTF-8; a bad byte becomes U+FFFD when replace
\* is set and makes the whole result bad otherwise (bad: <<-1>> in front).
RECURSIVE Utf8Points(_, _)
Utf8Points(b, replace) ==
    IF b = <<>> THEN <<>>
    ELSE IF b[1] < 128 THEN <<b[1]>> \o Utf8Points(Tail(b), replace)
    ELSE IF IsUtf8Lead2(b[1]) /\ Len(b) >= 2 /\ IsContinuation(b[2])
         THEN <<(b[1] - 192) * 64 + (b[2] - 128)>> \o Utf8Points(Tail(Tail(b)), replace)
    ELSE IF replace THEN <<ReplacementChar>> \o Utf8Points(Tail(b), replace)
    ELSE <<-1>>

\* The code points of b under GBK (cp936 is Python's alias of the same
\* codec).  A two-byte character is given the number 65536 + 256*lead + trail.
RECURSIVE GbkPoints(_)
GbkPoints(b) ==
    IF b = <<>> THEN <<>>
    ELSE IF b[1] < 128 THEN <<b[1]>> \o GbkPoints(Tail(b))
    ELSE IF IsGbkLead(b[1]) /\ Len(b) >= 2 /\ IsGbkTrail(b[2])
         THEN <<65536 + 256 * b[1] + b[2]>> \o GbkPoints(Tail(Tail(b)))
    ELSE <<-1>>

Strict(points) ==
    IF \E k \in 1..Len(points) : points[k] = -1 THEN Raised ELSE Decoded(points)

\* byte_data.decode(encoding)
Decode(encoding, b) ==
    CASE encoding = "utf-8"  -> Strict(Utf8Points(b, FALSE))
      [] encoding = "gbk"    -> Strict(GbkPoints(b))
      [] encoding = "cp936"  -> Strict(GbkPoints(b))
      [] encoding = "latin1" -> Decoded(b)
      [] encoding = "ascii"  -> IF \A k \in 1..Len(b) : b[k] < 128
                                THEN Decoded(b) ELSE Raised

\* byte_data.decode('utf-8', errors='replace')
DecodeReplace(b) == Utf8Points(b, TRUE)

encodings == <<"utf-8", "gbk", "cp936", "latin1", "ascii">>

\* The loop over encodings from position k on, then the fallback.
RECURSIVE TryFrom(_, _)
TryFrom(k, b) ==
    IF k > Len(encodings) THEN DecodeReplace(b)
    ELSE IF Decode(encodings[k], b).ok THEN Decode(encodings[k], b).text
    ELSE TryFrom(k + 1, b)

decode_bytes(b) == IF b = <<>> THEN <<>> ELSE TryFrom(1, b)

\* A reader calls decode_bytes on the bytes of a line.
DecodeStart ==
    /\ ParseIdle /\ ConfIdle
    /\ Init
    /\ StreamInit
    /\ ToolInit
    /\ LaunchIdle
    /\ byte_data \in ByteStrings
    /\ line = <<>>
    /\ dpc = "call"

decode_call ==
    /\ dpc = "call"
    /\ line' = decode_bytes(byte_data)
    /\ dpc' = "returned"
    /\ UNCHANGED <<vars, streamv, toolv, launchv, parsev, confv, byte_data>>

SpecDecode == DecodeStart /\ [][decode_call]_allvars

----------------------------------------------------------------------------
(* The toolchain roots: Config.get_ant_home / get_java_home, the roots      *)
(* AntExecutor keeps, validate_environment, and the command line and        *)
(* environment execute_ant_command_realtime hands to Popen.  A string is    *)
(* the sequence of its pieces: a path is the sequence of its components,    *)
(* "" is <<>>.  The disk is the set of the paths that exist.                *)
Roots == {"java", "ant"}
Dirs == {<<"d1">>, <<"d2">>}

\* "if x" of Python for x a string or None.
Truthy(x) == x # None /\ x # <<>>

\* 'JAVA_HOME' / 'ANT_HOME'
EnvName(root) == IF root = "java" THEN "JAVA_HOME" ELSE "ANT_HOME"

java_exe(home) == home \o <<"bin", "java.exe">>
ant_launcher(home) == home \o <<"lib", "ant-launcher.jar">>
ant_bat(home) == home \o <<"bin", "ant.bat">>

\* os.path.exists(p) / Path.exists()
exists(p) == p \in disk

\* The disks: a directory is absent, or present with any of the three files.
FilesOf(d) == {java_exe(d), ant_launcher(d), ant_bat(d)}
Disks ==
    {D \in SUBSET (Dirs \cup UNION {FilesOf(d) : d \in Dirs}) :
        \A d \in Dirs : FilesOf(d) \cap D # {} => d \in D}

\* e[name] = value on a dictionary e
Assign(e, name, value) ==
    [n \in DOMAIN e \cup {name} |-> IF n = name THEN value ELSE e[n]]

\* os.environ.get(name)
environ_get(name) == IF name \in DOMAIN environ THEN environ[name] ELSE None

\* The resolution with the environment variable asked first.
get_home_env_first(root) ==
    LET configured == paths[root]
        from_env == environ_get(EnvName(root))
    IN  IF Truthy(from_env) /\ exists(from_env)
        THEN [ret |-> from_env, paths |-> [paths EXCEPT ![root] = from_env]]
        ELSE IF Truthy(configured) /\ exists(configured)
        THEN [ret |-> configured, paths |-> paths]
        ELSE [ret |-> None, paths |-> paths]

\* Config.get_ant_home / Config.get_java_home: the value returned and the
\* 'paths' section of the configuration after the call (self.set on the
\* environment fallback).
get_home(root) ==
    LET configured == paths[root]
        from_env == environ_get(EnvName(root))
    IN  IF Truthy(configured) /\ exists(configured)
        THEN [ret |-> configured, paths |-> paths]
        ELSE IF Truthy(from_env) /\ exists(from_env)
        THEN [ret |-> from_env, paths |-> [paths EXCEPT ![root] = from_env]]
        ELSE [ret |-> None, paths |-> paths]

\* The messages of validate_environment.
MsgNoJavaHome == "no_java_home"   \* "未找到Java安装路径，请设置JAVA_HOME环境变量"
MsgNoJavaExe  == "no_java_exe"    \* "Java可执行文件不存在: ..."
MsgNoAntHome  == "no_ant_home"    \* "未找到Ant安装路径，请设置ANT_HOME环境变量"
MsgNoLauncher == "no_launcher"    \* "Ant启动器不存在: ... 且 Ant批处理不存在: ..."
MsgValid      == "valid"          \* "Ant环境验证通过"

\* The validation asking for both launchers.
validate_environment_both ==
    IF ~Truthy(java_home) THEN <<FALSE, MsgNoJavaHome>>
    ELSE IF ~exists(java_exe(java_home)) THEN <<FALSE, MsgNoJavaExe>>
    ELSE IF ~Truthy(ant_home) THEN <<FALSE, MsgNoAntHome>>
    ELSE IF ~exists(ant_launcher(ant_home)) \/ ~exists(ant_bat(ant_home))
    THEN <<FALSE, MsgNoLauncher>>
    ELSE <<TRUE, MsgValid>>

validate_environment ==
    IF ~Truthy(java_home) THEN <<FALSE, MsgNoJavaHome>>
    ELSE IF ~exists(java_exe(java_home)) THEN <<FALSE, MsgNoJavaExe>>
    ELSE IF ~Truthy(ant_home) THEN <<FALSE, MsgNoAntHome>>
    ELSE IF ~exists(ant_launcher(ant_home)) /\ ~exists(ant_bat(ant_home))
    THEN <<FALSE, MsgNoLauncher>>
    ELSE <<TRUE, MsgValid>>

\* The roots as the installation leaves them: any configured paths, any
\* JAVA_HOME / ANT_HOME in the environment, any disk; no AntExecutor yet.
EnvStart ==
    /\ ParseIdle /\ ConfIdle
    /\ Init /\ StreamInit /\ DecodeInit /\ LaunchIdle
    /\ paths \in [Roots -> Dirs \cup {<<>>}]
    /\ \E S \in SUBSET {"JAVA_HOME", "ANT_HOME"} : environ \in [S -> Dirs]
    /\ disk \in Disks
    /\ ant_home = None /\ java_home = None
    /\ validated = <<>> /\ used = <<>> /\ launched = <<>>
    /\ tpc = "new"

\* AntExecutor.__init__: the roots are resolved and kept in self.ant_home and
\* self.java_home.
AntExecutor_init ==
    /\ tpc = "new"
    /\ ant_home' = get_home("ant").ret
    /\ java_home' = get_home("java").ret
    /\ paths' = [r \in Roots |-> get_home(r).paths[r]]
    /\ tpc' = "ready"
    /\ UNCHANGED <<environ, disk, validated, used, launched>>

\* Config.set('paths.ant_home' / 'paths.java_home', value) on the global
\* configuration the executor holds.
Config_set(root, value) ==
    /\ tpc \in {"ready", "invoked"}
    /\ paths[root] # value
    /\ paths' = [paths EXCEPT ![root] = value]
    /\ tpc' = "ready"
    /\ UNCHANGED <<environ, disk, ant_home, java_home, validated, used, launched>>

\* The process environment os.environ changes: JAVA_HOME or ANT_HOME is set
\* to a directory.
environ_set(name, value) ==
    /\ tpc \in {"ready", "invoked"}
    /\ environ_get(name) # value
    /\ environ' = Assign(environ, name, value)
    /\ tpc' = "ready"
    /\ UNCHANGED <<paths, disk, ant_home, java_home, validated, used, launched>>

\* One invocation of execute_ant_command_realtime as far as the roots go:
\* validate_environment on self.java_home and self.ant_home, then, when it
\* passed, the command line and the child's JAVA_HOME / ANT_HOME from the
\* same two attributes.
execute_roots ==
    /\ tpc \in {"ready", "invoked"}
    /\ validated' = validate_environment
    /\ used' = [java |-> java_home, ant |-> ant_home]
    /\ launched' = IF validate_environment[1]
                   THEN [java |-> java_home, ant |-> ant_home]
                   ELSE <<>>
    /\ tpc' = "invoked"
    /\ UNCHANGED <<paths, environ, disk, ant_home, java_home>>

EnvNext ==
    \/ UNCHANGED <<vars, streamv, decodev, launchv, parsev, confv>> /\ AntExecutor_init
    \/ UNCHANGED <<vars, streamv, decodev, launchv, parsev, confv>> /\
           \E r \in Roots, v \in Dirs \cup {<<>>} : Config_set(r, v)
    \/ UNCHANGED <<vars, streamv, decodev, launchv, parsev, confv>> /\
           \E r \in Roots, v \in Dirs : environ_set(EnvName(r), v)
    \/ UNCHANGED <<vars, streamv, decodev, launchv, parsev, confv>> /\ execute_roots

SpecEnv == EnvStart /\ [][EnvNext]_allvars

----------------------------------------------------------------------------
(* The command line.  start_build validates the environment, turns the      *)
(* choice of the target box into selected_target, and the worker passes it  *)
(* to execute_ant_command_realtime, which builds cmd.                       *)

\* The first entry of the target box.
DefaultChoice == <<"(default)">>     \* "(使用默认目标)"

\* The targets build.xml declares; its default target is "build".
default_target == <<"build">>
Targets == {<<"build">>, <<"compile">>}
BuildFiles == {<<"proj", "build.xml">>, <<"other", "build.xml">>}

CommandStart ==
    /\ ParseIdle /\ ConfIdle
    /\ Init /\ StreamInit /\ DecodeInit
    /\ paths = [r \in Roots |-> <<>>]
    /\ environ = <<>>
    /\ disk \in Disks
    /\ ant_home \in Dirs \cup {None}
    /\ java_home \in Dirs \cup {None}
    /\ validated = <<>> /\ used = <<>> /\ launched = <<>>
    /\ tpc = "idle"
    /\ selected \in {DefaultChoice} \cup Targets
    /\ selected_target = <<>>
    /\ build_file \in BuildFiles
    /\ cmd = <<>>
    /\ env = <<>>
    /\ lpc = "start"

\* start_build: "if not valid: show_error(...); return"
start_invalid ==
    /\ lpc = "start"
    /\ ~validate_environment[1]
    /\ lpc' = "error"
    /\ UNCHANGED <<selected, selected_target, build_file, cmd, env>>

\* start_build: selected = self.target_var.get(); "(使用默认目标)" becomes "".
select_target ==
    /\ lpc = "start"
    /\ validate_environment[1]
    /\ selected_target' = IF selected = DefaultChoice THEN <<>> ELSE selected
    /\ lpc' = "selected"
    /\ UNCHANGED <<selected, build_file, cmd, env>>

\* The command with the target appended whatever it is.
Command_always_target(file, target) ==
    (IF exists(ant_launcher(ant_home))
     THEN <<java_exe(java_home), <<"-jar">>, ant_launcher(ant_home), <<"-f">>, file>>
     ELSE <<ant_bat(ant_home), <<"-f">>, file>>)
    \o <<target>>

\* cmd of execute_ant_command_realtime(build_file, target).
Command(file, target) ==
    (IF exists(ant_launcher(ant_home))
     THEN <<java_exe(java_home), <<"-jar">>, ant_launcher(ant_home), <<"-f">>, file>>
     ELSE <<ant_bat(ant_home), <<"-f">>, file>>)
    \o (IF target # <<>> THEN <<target>> ELSE <<>>)

build_command ==
    /\ lpc = "selected"
    /\ cmd' = Command(build_file, selected_target)
    /\ lpc' = "command"
    /\ UNCHANGED <<selected, selected_target, build_file, env>>

CommandNext ==
    \/ UNCHANGED <<vars, streamv, decodev, toolv, parsev, confv>> /\ start_invalid
    \/ UNCHANGED <<vars, streamv, decodev, toolv, parsev, confv>> /\ select_target
    \/ UNCHANGED <<vars, streamv, decodev, toolv, parsev, confv>> /\ build_command

SpecCommand == CommandStart /\ [][CommandNext]_allvars

----------------------------------------------------------------------------
(* The child's environment.  The value of an option variable is a sequence  *)
(* of pieces: a blank, the text "-Dsun.jnu.encoding=" (Flag), or any other  *)
(* text without blanks ("x").                                               *)
Chars == {" ", "D", "x"}
Flag == "D"
OptVars == <<"JAVA_TOOL_OPTIONS", "_JAVA_OPTIONS", "JDK_JAVA_OPTIONS">>

Strings(n) == UNION {[1..k -> Chars] : k \in 0..n}

\* str.split(): the maximal runs without blanks.
RECURSIVE split(_)
split(s) ==
    IF s = <<>> THEN <<>>
    ELSE IF Head(s) = " " THEN split(Tail(s))
    ELSE LET n == CHOOSE n \in 1..Len(s) :
                      /\ \A k \in 1..n : s[k] # " "
                      /\ n = Len(s) \/ s[n + 1] = " "
         IN  <<SubSeq(s, 1, n)>> \o split(SubSeq(s, n + 1, Len(s)))

\* t.startswith('-Dsun.jnu.encoding=')
startswith_flag(t) == Head(t) = Flag

\* ' '.join(tokens)
RECURSIVE join(_)
join(tokens) ==
    IF tokens = <<>> THEN <<>>
    ELSE IF Len(tokens) = 1 THEN tokens[1]
    ELSE tokens[1] \o <<" ">> \o join(Tail(tokens))

\* str.strip()
RECURSIVE strip(_)
strip(s) ==
    IF s = <<>> THEN s
    ELSE IF Head(s) = " " THEN strip(Tail(s))
    ELSE IF s[Len(s)] = " " THEN strip(SubSeq(s, 1, Len(s) - 1))
    ELSE s

\* e.pop(name, None)
Pop(e, name) == [n \in DOMAIN e \ {name} |-> e[n]]

\* The round without the final pop: a variable left without tokens stays, empty.
CleanOptions_no_pop(e, opt_var) ==
    IF opt_var \in DOMAIN e /\ e[opt_var] # <<>>
    THEN LET tokens == split(e[opt_var])
             Keep(t) == ~startswith_flag(t)
             filtered == SelectSeq(tokens, Keep)
         IN  Assign(e, opt_var, join(filtered))
    ELSE e

\* One round of "for opt_var in [...]" on the copy e.
CleanOptions(e, opt_var) ==
    IF opt_var \in DOMAIN e /\ e[opt_var] # <<>>
    THEN LET tokens == split(e[opt_var])
             Keep(t) == ~startswith_flag(t)
             filtered == SelectSeq(tokens, Keep)
             cleaned == Assign(e, opt_var, join(filtered))
         IN  IF strip(cleaned[opt_var]) = <<>> THEN Pop(cleaned, opt_var) ELSE cleaned
    ELSE e

\* env = os.environ.copy(); env['JAVA_HOME'] = ...; env['ANT_HOME'] = ...;
\* the loop over the three option variables.
child_env ==
    LET copy == environ
        roots == Assign(Assign(copy, "JAVA_HOME", java_home), "ANT_HOME", ant_home)
    IN  CleanOptions(CleanOptions(CleanOptions(roots, OptVars[1]), OptVars[2]),
                     OptVars[3])

\* The environment the program inherited: PATH, a JAVA_HOME, no ANT_HOME,
\* and any of the three option variables, MaxChars pieces in all.
Splits ==
    UNION {UNION {{<<a, b, c>> : c \in Strings(MaxChars - Len(a) - Len(b))} :
                     b \in Strings(MaxChars - Len(a))} :
              a \in Strings(MaxChars)}

ParentEnvs ==
    {Assign(Assign([v \in S |-> CASE v = OptVars[1] -> x[1]
                                  [] v = OptVars[2] -> x[2]
                                  [] OTHER -> x[3]],
                   "PATH", <<"p">>), "JAVA_HOME", <<"d1">>) :
        S \in SUBSET {OptVars[k] : k \in 1..3}, x \in Splits}

ChildEnvStart ==
    /\ ParseIdle /\ ConfIdle
    /\ Init /\ StreamInit /\ DecodeInit
    /\ paths = [r \in Roots |-> <<>>]
    /\ environ \in ParentEnvs
    /\ disk = Dirs \cup UNION {FilesOf(d) : d \in Dirs}
    /\ ant_home \in Dirs
    /\ java_home \in Dirs
    /\ validated = <<>> /\ used = <<>> /\ launched = <<>>
    /\ tpc = "idle"
    /\ selected = DefaultChoice
    /\ selected_target = <<>>
    /\ build_file = <<"proj", "build.xml">>
    /\ cmd = <<>>
    /\ env = <<>>
    /\ lpc = "environment"

build_env ==
    /\ lpc = "environment"
    /\ env' = child_env
    /\ lpc' = "spawn"
    /\ UNCHANGED <<vars, streamv, decodev, toolv, parsev, confv, selected, selected_target,
                   build_file, cmd>>

SpecChildEnv == ChildEnvStart /\ [][build_env]_allvars

----------------------------------------------------------------------------
(* parse_build_file.  The text of build.xml is the sequence of its tags: an *)
(* opening tag <<"open", tag, attrs>> with attrs the function from the      *)
(* names of its attributes to their values, or the closing tag <<"close">>. *)
(* An empty element is an opening tag followed by a closing tag.            *)
Open(tag, attrs) == <<"open", tag, attrs>>
Close == <<"close">>
IsOpen(token) == token[1] = "open"

\* Element.get(key, default)
Attr(token, key, default) ==
    IF key \in DOMAIN token[3] THEN token[3][key] ELSE default

\* The elements the texts are made of.  The root: a project without
\* attributes, with empty ones, with a name and a default target.
RootTags ==
    {Open("project", <<>>),
     Open("project", [name |-> "", default |-> ""]),
     Open("project", [name |-> "p", default |-> "a"])}

\* Below the root: targets with and without name and description, and an
\* element of another kind that has a name.
InnerTags ==
    {Open("target", <<>>),
     Open("target", [name |-> ""]),
     Open("target", [name |-> "a"]),
     Open("target", [name |-> "a", description |-> ""]),
     Open("target", [name |-> "b", description |-> "d"]),
     Open("property", [name |-> "b"])}

\* The well-formed sequences of n elements, each with what is nested in it.
Forests[n \in 0..MaxElements] ==
    IF n = 0 THEN {<<>>}
    ELSE UNION {LET inside == Forests[k]
                    after == Forests[n - 1 - k]
                IN  {<<t>> \o inner \o <<Close>> \o rest :
                        t \in InnerTags, inner \in inside, rest \in after} :
                k \in 0..(n - 1)}

\* The document with root tag r and the elements f below it.
Document(r, f) == <<r>> \o f \o <<Close>>

\* The files: no file, a path that exists and cannot be read as a file (a
\* directory, a file without read permission), or a file holding a document
\* in full, without its last tag, or with nothing in it.
Missing == [state |-> "missing", text |-> <<>>]
Unreadable == [state |-> "unreadable", text |-> <<>>]
File(text) == [state |-> "file", text |-> text]

\* The number of elements open after the first k tags.
RECURSIVE Depth(_, _)
Depth(text, k) ==
    IF k = 0 THEN 0
    ELSE Depth(text, k - 1) + (IF IsOpen(text[k]) THEN 1 ELSE -1)

\* ET.parse accepts the text: one root element, every element closed.
WellFormed(text) ==
    /\ text # <<>>
    /\ \A k \in 1..(Len(text) - 1) : Depth(text, k) > 0
    /\ Depth(text, Len(text)) = 0

\* root.findall('target'): the children of the root.
findall_children(text, tag) ==
    LET below == [k \in 1..(Len(text) - 1) |-> <<text[k + 1], Depth(text, k)>>]
        Match(e) == IsOpen(e[1]) /\ e[1][2] = tag /\ e[2] = 1
        found == SelectSeq(below, Match)
    IN  [k \in 1..Len(found) |-> found[k][1]]

\* root.findall('.//target'): the elements below the root with that tag, in
\* document order.
findall(text, tag) ==
    LET below == [k \in 1..(Len(text) - 1) |-> <<text[k + 1], Depth(text, k)>>]
        Match(e) == IsOpen(e[1]) /\ e[1][2] = tag
        found == SelectSeq(below, Match)
    IN  [k \in 1..Len(found) |-> found[k][1]]

\* A description as it is declared.
Describe_declared(target_name, target_desc) == <<target_desc>>

\* target_desc or f"Target: {target_name}"
Describe(target_name, target_desc) ==
    IF target_desc # "" THEN <<target_desc>> ELSE <<"Target: ", target_name>>

\* The loop with the description appended for every target element, named
\* or not.
append_targets_describe_all(targets) ==
    LET Named(t) == Attr(t, "name", "None") \notin {"None", ""}
        kept == SelectSeq(targets, Named)
    IN  [targets |-> [k \in 1..Len(kept) |-> Attr(kept[k], "name", "None")],
         descriptions |-> [k \in 1..Len(targets) |->
                              Describe(Attr(targets[k], "name", "None"),
                                       Attr(targets[k], "description", ""))]]

\* for target in targets: the two lists result['targets'] and
\* result['descriptions'] after the loop; both are appended to under
\* "if target_name:".
append_targets(targets) ==
    LET Named(t) == Attr(t, "name", "None") \notin {"None", ""}
        kept == SelectSeq(targets, Named)
    IN  [targets |-> [k \in 1..Len(kept) |-> Attr(kept[k], "name", "None")],
         descriptions |-> [k \in 1..Len(kept) |->
                              Describe(Attr(kept[k], "name", "None"),
                                       Attr(kept[k], "description", ""))]]

\* The values of result['error'].
NoError == "None"
ErrNotFound == "not_found"      \* "构建文件不存在: ..."
ErrParse == "parse_error"       \* "XML解析错误: ..."
ErrOther == "read_error"        \* "解析build.xml时发生错误: ..."

\* result as parse_build_file creates it.
EmptyResult ==
    [targets |-> <<>>, descriptions |-> <<>>, default_target |-> "",
     project_name |-> "", error |-> NoError]

\* The try block with error left unset on malformed markup.
parse_result_silent(file) ==
    IF file.state = "missing" THEN [EmptyResult EXCEPT !.error = ErrNotFound]
    ELSE IF file.state = "unreadable" THEN [EmptyResult EXCEPT !.error = ErrOther]
    ELSE IF ~WellFormed(file.text) THEN EmptyResult
    ELSE LET root == file.text[1]
             listed == append_targets(findall(file.text, "target"))
         IN  [targets |-> listed.targets,
              descriptions |-> listed.descriptions,
              default_target |-> Attr(root, "default", ""),
              project_name |-> Attr(root, "name", "Unknown Project"),
              error |-> NoError]

\* What parse_build_file(build_file) returns.
parse_result(file) ==
    IF file.state = "missing" THEN [EmptyResult EXCEPT !.error = ErrNotFound]
    ELSE IF file.state = "unreadable" THEN [EmptyResult EXCEPT !.error = ErrOther]
    ELSE IF ~WellFormed(file.text) THEN [EmptyResult EXCEPT !.error = ErrParse]
    ELSE LET root == file.text[1]
             listed == append_targets(findall(file.text, "target"))
         IN  [targets |-> listed.targets,
              descriptions |-> listed.descriptions,
              default_target |-> Attr(root, "default", ""),
              project_name |-> Attr(root, "name", "Unknown Project"),
              error |-> NoError]

ParseStart ==
    /\ Init /\ StreamInit /\ DecodeInit /\ ToolInit /\ LaunchIdle /\ ConfIdle
    /\ \/ build_xml \in {Missing, Unreadable, File(<<>>)}
       \/ \E n \in 0..MaxElements : \E r \in RootTags, f \in Forests[n], cut \in {0, 1} :
              build_xml = File(SubSeq(Document(r, f), 1, Len(f) + 2 - cut))
    /\ build_info = <<>>
    /\ ppc = "call"

\* AntBuildGUI.parse_build_file: self.build_info = executor.parse_build_file(...)
parse_build_file ==
    /\ ppc = "call"
    /\ build_info' = parse_result(build_xml)
    /\ ppc' = "returned"
    /\ UNCHANGED <<vars, streamv, decodev, toolv, launchv, confv, build_xml>>

SpecParse == ParseStart /\ [][parse_build_file]_allvars

-----------------------------------------------------------------------------
(* Config: get and set of dotted keys, load and save of the settings file,  *)
(* and the toolchain roots resolved on the configuration as loaded.  A key  *)
(* is the sequence of its segments: key.split('.') is one-to-one between    *)
(* the strings and the sequences of at least one segment without a dot.     *)

\* Values that are not JSON: an object json.dump rejects, and a tuple, which
\* json writes as a list.
Opaque == <<"object">>
Tuple == <<"tuple">>
List == <<"list">>

\* p is the path r or a path above it.
IsPrefix(p, r) == Len(p) <= Len(r) /\ SubSeq(r, 1, Len(p)) = p

\* value[k] for the keys of p in turn, where they exist.
Subtree(t, p) ==
    LET below == {r \in DOMAIN t : IsPrefix(p, r)}
    IN  [q \in {SubSeq(r, Len(p) + 1, Len(r)) : r \in below} |-> t[p \o q]]

\* d[k] = v on the dictionary at the path above p: what was at p is replaced.
Graft(t, p, v) ==
    LET kept == {r \in DOMAIN t : ~IsPrefix(p, r)}
        added == {p \o q : q \in DOMAIN v}
    IN  [r \in kept \cup added |->
            IF r \in added THEN v[SubSeq(r, Len(p) + 1, Len(r))] ELSE t[r]]

\* for k in keys: value = value[k]
RECURSIVE Index(_, _)
Index(val, keys) ==
    IF keys = <<>> THEN [exc |-> NoExc, value |-> val]
    ELSE IF val[<<>>] # Mapping THEN [exc |-> "TypeError", value |-> val]
    ELSE IF <<Head(keys)>> \notin DOMAIN val THEN [exc |-> "KeyError", value |-> val]
    ELSE Index(Subtree(val, <<Head(keys)>>), Tail(keys))

\* get with 'except KeyError' only.
get_keyerror_only(t, keys, default) ==
    LET r == Index(t, keys)
    IN  IF r.exc = "KeyError" THEN [exc |-> NoExc, value |-> default] ELSE r

\* Config.get(key, default)
get(t, keys, default) ==
    LET r == Index(t, keys)
    IN  IF r.exc \in {"KeyError", "TypeError"}
        THEN [exc |-> NoExc, value |-> default]
        ELSE r

\* The loop and the assignment of Config.set, config being the dictionary at
\* the path at: the exception raised, if any, and the configuration after.
RECURSIVE Descend(_, _, _, _)
Descend(t, at, keys, v) ==
    IF t[at] # Mapping THEN [exc |-> "TypeError", tree |-> t]
    ELSE IF Len(keys) = 1 THEN [exc |-> NoExc, tree |-> Graft(t, at \o keys, v)]
    ELSE LET k == Head(keys)
             made == IF at \o <<k>> \in DOMAIN t THEN t
                     ELSE Graft(t, at \o <<k>>, EmptyMap)
         IN  Descend(made, at \o <<k>>, Tail(keys), v)

\* Config.set(key, value)
set(t, keys, v) == Descend(t, <<>>, keys, v)

\* Config._create_default_config: the paths of the built-in configuration
\* and what is found there.
DefaultItems ==
    {<<<<>>, Mapping>>,
     <<<<"menu_config">>, Mapping>>,
     <<<<"menu_config", "menu_text">>, <<"Run Ant Build">>>>,
     <<<<"menu_config", "menu_text_cn">>, <<"menu_text_cn">>>>,
     <<<<"menu_config", "icon">>, <<>>>>,
     <<<<"menu_config", "registry_key">>, <<"AntBuildMenu">>>>,
     <<<<"ant_config">>, Mapping>>,
     <<<<"ant_config", "timeout_seconds">>, <<"300">>>>,
     <<<<"ant_config", "show_output">>, <<"True">>>>,
     <<<<"ant_config", "common_targets">>, List>>,
     <<<<"ui_config">>, Mapping>>,
     <<<<"ui_config", "show_target_selection">>, <<"True">>>>,
     <<<<"ui_config", "language">>, <<"auto">>>>,
     <<<<"ui_config", "theme">>, <<"default">>>>,
     <<<<"logging">>, Mapping>>,
     <<<<"logging", "level">>, <<"INFO">>>>,
     <<<<"logging", "log_file">>, <<"ant_build.log">>>>,
     <<<<"logging", "max_log_size_mb">>, <<"10">>>>,
     <<<<"logging", "backup_count">>, <<"3">>>>,
     <<<<"paths">>, Mapping>>,
     <<<<"paths", "ant_home">>, <<>>>>,
     <<<<"paths", "java_home">>, <<>>>>,
     <<<<"paths", "work_dir">>, <<>>>>}

DefaultConfig ==
    [p \in {i[1] : i \in DefaultItems} |-> (CHOOSE i \in DefaultItems : i[1] = p)[2]]

\* The settings file: absent, there but not to be opened (a directory, no
\* permission), holding text that is not JSON, or holding a JSON value.
NoFile == [state |-> "missing", tree |-> EmptyMap]
Locked == [state |-> "unreadable", tree |-> EmptyMap]
Garbage == [state |-> "unparseable", tree |-> EmptyMap]
Json(t) == [state |-> "json", tree |-> t]

\* The files an installation may have: the four above with the built-in
\* configuration, the same with a configured Ant root, '{}', 'null' and
\* '{"paths": null}'.
SettingsFiles ==
    {NoFile, Locked, Garbage,
     Json(DefaultConfig),
     Json(Graft(DefaultConfig, <<"paths", "ant_home">>, Leaf(<<"d1">>))),
     Json(EmptyMap),
     Json(Leaf(None)),
     Json(Graft(EmptyMap, <<"paths">>, Leaf(None)))}

\* load which leaves the configuration empty when the file cannot be read.
load_no_defaults(file) ==
    IF file.state = "missing" THEN [config |-> DefaultConfig, file |-> file]
    ELSE IF file.state \in {"unreadable", "unparseable"}
    THEN [config |-> EmptyMap, file |-> file]
    ELSE [config |-> file.tree, file |-> file]

\* Config.load: self._config and the file after the call.
load(file) ==
    IF file.state = "missing" THEN [config |-> DefaultConfig, file |-> file]
    ELSE IF file.state \in {"unreadable", "unparseable"}
    THEN [config |-> DefaultConfig, file |-> file]
    ELSE [config |-> file.tree, file |-> file]

\* json.dump accepts the value.
Serializable(t) == \A p \in DOMAIN t : t[p] # Opaque

\* What json.load reads back from what json.dump wrote.
json_roundtrip(t) == [p \in DOMAIN t |-> IF t[p] = Tuple THEN List ELSE t[p]]

\* save which does not replace a file that is there.
save_keep_existing(t, file, w) ==
    IF ~w \/ file.state # "missing" THEN file
    ELSE IF ~Serializable(t) THEN Garbage
    ELSE Json(json_roundtrip(t))

\* Config.save: the file after the call.  open(..., 'w') fails and leaves the
\* file; json.dump failing on a value leaves the file cut short.
save(t, file, w) ==
    IF ~w \/ file.state = "unreadable" THEN file
    ELSE IF ~Serializable(t) THEN Garbage
    ELSE Json(json_roundtrip(t))

\* 'paths.ant_home' / 'paths.java_home'
HomeKey(root) == <<"paths", IF root = "java" THEN "java_home" ELSE "ant_home">>

\* "if x" of Python for a value.
TruthyValue(v) ==
    IF v[<<>>] = Mapping THEN DOMAIN v # {<<>>} ELSE v[<<>>] \notin {None, <<>>}

\* os.path.exists(x) takes x: a string.
IsStr(v) == v[<<>>] \notin {Mapping, None, Opaque, Tuple, List}

\* Config.get_ant_home / Config.get_java_home on the configuration t: the
\* exception raised, if any, the value returned and the configuration after.
resolve_home(t, root) ==
    LET configured == get(t, HomeKey(root), Leaf(None)).value
        from_env == environ_get(EnvName(root))
    IN  IF TruthyValue(configured) /\ ~IsStr(configured)
        THEN [exc |-> "TypeError", ret |-> Leaf(None), tree |-> t]
        ELSE IF TruthyValue(configured) /\ exists(configured[<<>>])
        THEN [exc |-> NoExc, ret |-> configured, tree |-> t]
        ELSE IF Truthy(from_env) /\ exists(from_env)
        THEN LET s == set(t, HomeKey(root), Leaf(from_env))
             IN  [exc |-> s.exc,
                  ret |-> IF s.exc = NoExc THEN Leaf(from_env) ELSE Leaf(None),
                  tree |-> s.tree]
        ELSE [exc |-> NoExc, ret |-> Leaf(None), tree |-> t]

\* The keys and the values the calls are made with.
DottedKeys ==
    {<<"paths">>, <<"paths", "ant_home">>, <<"paths", "ant_home", "x">>,
     <<"test">>, <<"test", "nested", "value">>}
Values == {Leaf(<<"test_value">>), Leaf(Tuple), Leaf(Opaque), EmptyMap}
Defaults == {Leaf(None), Leaf(<<"default">>)}

\* Calls are counted up to MaxCalls.
More == ncalls < MaxCalls

\* Config(config_file): __init__ sets _config = {} and calls load.
Config_init(i) ==
    /\ ~cfg[i].built
    /\ i = "config2" => cfg["config1"].built
    /\ cfg' = [cfg EXCEPT ![i] = [built |-> TRUE, tree |-> load(settings).config]]
    /\ settings' = load(settings).file
    /\ lastcall' = [NoCall EXCEPT !.op = "init", !.on = i]
    /\ UNCHANGED <<writable, saved, ncalls>>

\* config.set(key, value)
call_set(i, key, v) ==
    /\ cfg[i].built /\ More
    /\ cfg' = [cfg EXCEPT ![i].tree = set(cfg[i].tree, key, v).tree]
    /\ lastcall' = [op |-> "set", on |-> i, key |-> key, arg |-> v,
                    exc |-> set(cfg[i].tree, key, v).exc, out |-> Leaf(None)]
    /\ ncalls' = ncalls + 1
    /\ UNCHANGED <<settings, writable, saved>>

\* config.get(key, default)
call_get(i, key, default) ==
    /\ cfg[i].built /\ More
    /\ lastcall' = [op |-> "get", on |-> i, key |-> key, arg |-> default,
                    exc |-> get(cfg[i].tree, key, default).exc,
                    out |-> get(cfg[i].tree, key, default).value]
    /\ ncalls' = ncalls + 1
    /\ UNCHANGED <<cfg, settings, writable, saved>>

\* config1.save()
call_save ==
    /\ cfg["config1"].built /\ More
    /\ settings' = save(cfg["config1"].tree, settings, writable)
    /\ saved' = [called |-> TRUE,
                 wrote |-> /\ writable /\ settings.state # "unreadable"
                           /\ Serializable(cfg["config1"].tree),
                 tree |-> cfg["config1"].tree]
    /\ lastcall' = [NoCall EXCEPT !.op = "save"]
    /\ ncalls' = ncalls + 1
    /\ UNCHANGED <<cfg, writable>>

\* config.get_ant_home() / config.get_java_home()
call_get_home(i, root) ==
    /\ cfg[i].built /\ More
    /\ cfg' = [cfg EXCEPT ![i].tree = resolve_home(cfg[i].tree, root).tree]
    /\ lastcall' = [op |-> "home", on |-> i, key |-> HomeKey(root), arg |-> Leaf(None),
                    exc |-> resolve_home(cfg[i].tree, root).exc,
                    out |-> resolve_home(cfg[i].tree, root).ret]
    /\ ncalls' = ncalls + 1
    /\ UNCHANGED <<settings, writable, saved>>

\* A configuration constructed on any of the files; get and set on it.
ConfigStart ==
    /\ Init /\ StreamInit /\ DecodeInit /\ ToolInit /\ LaunchIdle /\ ParseIdle
    /\ settings \in SettingsFiles
    /\ cfg = [i \in Instances |->
                 IF i = "config1" THEN [built |-> TRUE, tree |-> load(settings).config]
                 ELSE [built |-> FALSE, tree |-> EmptyMap]]
    /\ writable = TRUE
    /\ saved = [called |-> FALSE, wrote |-> FALSE, tree |-> EmptyMap]
    /\ lastcall = [NoCall EXCEPT !.op = "init"]
    /\ ncalls = 0

ConfigNext ==
    \/ UNCHANGED <<vars, streamv, decodev, toolv, launchv, parsev>> /\
           \E key \in DottedKeys, v \in Values : call_set("config1", key, v)
    \/ UNCHANGED <<vars, streamv, decodev, toolv, launchv, parsev>> /\
           \E key \in DottedKeys, default \in Defaults : call_get("config1", key, default)

SpecConfig == ConfigStart /\ [][ConfigNext]_allvars

\* The settings file through construction, set and save: any file, writable
\* or not, no Config yet.
SettingsStart ==
    /\ Init /\ StreamInit /\ DecodeInit /\ ToolInit /\ LaunchIdle /\ ParseIdle
    /\ settings \in SettingsFiles
    /\ writable \in BOOLEAN
    /\ cfg = [i \in Instances |-> [built |-> FALSE, tree |-> EmptyMap]]
    /\ saved = [called |-> FALSE, wrote |-> FALSE, tree |-> EmptyMap]
    /\ lastcall = NoCall
    /\ ncalls = 0

SettingsNext ==
    \/ UNCHANGED <<vars, streamv, decodev, toolv, launchv, parsev>> /\
           \E i \in Instances : Config_init(i)
    \/ UNCHANGED <<vars, streamv, decodev, toolv, launchv, parsev>> /\
           \E key \in DottedKeys, v \in Values : call_set("config1", key, v)
    \/ UNCHANGED <<vars, streamv, decodev, toolv, launchv, parsev>> /\ call_save

SpecSettings == SettingsStart /\ [][SettingsNext]_allvars

\* The roots resolved on a configuration constructed on any of the files, in
\* any environment.
HomeStart ==
    /\ Init /\ StreamInit /\ DecodeInit /\ LaunchIdle /\ ParseIdle
    /\ paths = [r \in Roots |-> <<>>]
    /\ \E S \in SUBSET {"JAVA_HOME", "ANT_HOME"} : environ \in [S -> {<<"d1">>}]
    /\ disk \in {{}, {<<"d1">>}}
    /\ ant_home = None /\ java_home = None
    /\ validated = <<>> /\ used = <<>> /\ launched = <<>>
    /\ tpc = "idle"
    /\ settings \in SettingsFiles
    /\ cfg = [i \in Instances |->
                 IF i = "config1" THEN [built |-> TRUE, tree |-> load(settings).config]
                 ELSE [built |-> FALSE, tree |-> EmptyMap]]
    /\ writable = TRUE
    /\ saved = [called |-> FALSE, wrote |-> FALSE, tree |-> EmptyMap]
    /\ lastcall = [NoCall EXCEPT !.op = "init"]
    /\ ncalls = 0

HomeNext ==
    \/ UNCHANGED <<vars, streamv, decodev, toolv, launchv, parsev>> /\
           \E root \in Roots : call_get_home("config1", root)
    \/ UNCHANGED <<vars, streamv, decodev, toolv, launchv, parsev>> /\
           \E v \in Values : call_set("config1", <<"paths", "ant_home">>, v)

SpecHome == HomeStart /\ [][HomeNext]_allvars

----------------------------------------------------------------------------
(* The end of a build: its worker thread has returned, the callback it      *)
(* queued has run, current_process no longer refers to its Popen object and *)
(* its child has ended.  Nothing of the program refers to the build any     *)
(* more; its record is dropped, so that the state holds the builds in       *)
(* flight and the last one finished.                                        *)

Queued(i) == \E k \in 1..Len(afterq) : afterq[k].inv = i

Over(i) ==
    /\ ui_pc = "idle"
    /\ wpc[i] = "done"
    /\ result[i] # "none"
    /\ ~Queued(i)
    /\ current_process # i
    /\ Dead(i) \/ child[i] = "none"

release(i) ==
    /\ Over(i)
    /\ child' = [child EXCEPT ![i] = IF @ = "none" THEN "none" ELSE "reaped"]
    /\ rd' = [rd EXCEPT ![i] = [s \in Streams |-> "none"]]
    /\ joined' = [joined EXCEPT ![i] = {}]
    /\ sink' = [sink EXCEPT ![i] = {}]
    /\ result' = [result EXCEPT ![i] = "none"]
    /\ reports' = [reports EXCEPT ![i] = <<>>]
    /\ logs' = [logs EXCEPT ![i] = <<>>]
    /\ siglog' = [siglog EXCEPT ![i] = <<>>]
    /\ UNCHANGED <<gui, afterq, wpc>>

\* A finished build is released before anything else happens.
Settled == \A i \in Inv : ~Over(i)

Next(max) ==
    \/ UNCHANGED aux /\ \E i \in Inv : release(i)
    \/ UNCHANGED aux /\ Settled /\ start_build(max)
    \/ UNCHANGED aux /\ Settled /\ cancel_build
    \/ UNCHANGED aux /\ Settled /\ cancel_wait_done
    \/ UNCHANGED aux /\ Settled /\ cancel_wait_timeout
    \/ UNCHANGED aux /\ Settled /\ cancel_kill
    \/ UNCHANGED aux /\ Settled /\ run_after
    \/ UNCHANGED aux /\ Settled /\ \E i \in Inv : ChildExit(i)
    \/ UNCHANGED aux /\ Settled /\ \E i \in Inv : Worker(i)
    \/ UNCHANGED aux /\ Settled /\ \E i \in Inv, s \in Streams : reader_eof(i, s)

\* The window with up to MaxBuilds builds, one after another or overlapping.
Spec == Start /\ [][Next(MaxBuilds)]_allvars

\* The window with up to MaxRuns builds.
SpecOne == Start /\ [][Next(MaxRuns)]_allvars

\* A step of some worker thread, or the end of a build.
WorkerStep == UNCHANGED aux /\ \E i \in Inv : (Settled /\ Worker(i)) \/ release(i)

\* SpecOne with the worker threads scheduled: while some worker can take a
\* step, one of them does.  Nothing is assumed of the child, of the reader
\* threads or of the user: the child may run forever, a reader may stay
\* blocked in readline() forever.
SpecOneFair == SpecOne /\ WF_allvars(WorkerStep)

----------------------------------------------------------------------------
(* Views of the recorded history used by the properties below.             *)

\* The outcomes the GUI reported for build i.
Reported(i) == {reports[i][k] : k \in 1..Len(reports[i])}

\* The terminate()/kill() calls made on the Popen object of build i.
Signals(i) == {siglog[i][k] : k \in 1..Len(siglog[i])}

\* The kinds of message the executor passed to the sink of build i.
Said(i) == {m[1] : m \in sink[i]}

\* The worker of build i took the TimeoutExpired handler.
TimedOut(i) == SigCall("worker", "kill") \in Signals(i)

\* Build i is terminal for the worker: it has observed the child's exit, has
\* timed out and killed the child, or has returned; or the GUI has reported
\* the build cancelled.
Terminal(i) ==
    \/ wpc[i] \in {"sum_use", "tmo_cb", "tmo_use", "done"}
    \/ "cancelled" \in Reported(i)

\* The events of the sink that carry a line of stream s, in order of receipt.
FromStream(s) == SelectSeq(events, LAMBDA e : e[1][1] = s)

\* The executor's own messages the sink received with the tag is_error.
FromExecutor(is_error) ==
    SelectSeq(events, LAMBDA e : e[1][1] = "exec" /\ e[2] = is_error)

\* The sink has received, from stream s, the first lines the child wrote to
\* it, in the order it wrote them, each once and with the tag of the stream.
InOrder(s) ==
    /\ Len(FromStream(s)) <= Len(emitted[s])
    /\ \A k \in 1..Len(FromStream(s)) :
           FromStream(s)[k] = Event(emitted[s][k], s = "err")

\* execute_ant_command_realtime has returned after the child exited by itself.
RunReported == epc \in {"ret_ok", "ret_fail", "ret_error"}

----------------------------------------------------------------------------
(* Properties.                                                              *)

\* C1: for every build exactly one terminal outcome is reported: once
\* build_completed, build_error or cancel_build has reported the outcome of a
\* build, no later callback reports another outcome for the same build.
C1_OneOutcome ==
    \A i \in Inv : Len(reports[i]) <= 1

\* C2: on every terminal path after the child was spawned, normal exit and
\* timeout alike, the final summary (success, failure or timeout) is passed to
\* the sink only after each reader thread has finished or has been waited for
\* with the bounded join.
C2_SummaryAfterReaders ==
    \A i \in Inv :
        Said(i) \cap {"success", "failed", "timeout"} # {}
            => \A s \in Streams : rd[i][s] = "done" \/ s \in joined[i]

\* C3: cancel_build on a running build sends terminate first and kill only
\* after it, never kill before terminate; and once the build is reported
\* cancelled its child is no longer alive.
C3_CancelTerminateThenKill ==
    \A i \in Inv :
        /\ \A k \in 1..Len(siglog[i]) :
               siglog[i][k] = SigCall("ui", "kill")
                   => \E j \in 1..(k - 1) : siglog[i][j] = SigCall("ui", "term")
        /\ "cancelled" \in Reported(i) => ~Alive(i)

\* C4: cancel_build on a build that is already terminal (the worker has
\* observed the child's exit, the build timed out, was already cancelled, or
\* has returned) is a no-op: no signal is sent, nothing is reported, no state
\* changes.
C4_CancelTerminalNoOp ==
    [][(cancel_build /\ nbuilds > 0 /\ Terminal(nbuilds)) => UNCHANGED vars]_vars

\* C5: when the timeout elapses the worker kills the child and passes the
\* timeout message carrying the configured timeout value to the sink; when it
\* has ended the child is not alive and the result is never success; with no
\* cancel_build at work it returns failure with the elapsed time.
C5_TimeoutKillsAndFails ==
    \A i \in Inv :
        (wpc[i] = "done" /\ (TimedOut(i) \/ "timeout" \in Said(i)))
            => /\ <<"timeout", timeout_seconds>> \in sink[i]
               /\ ~Alive(i)
               /\ result[i] # "ok"
               /\ ~cancel_seen => result[i] = "fail"

C5_Witness ==
    \E i \in Inv :
        /\ TimedOut(i)
        /\ wpc[i] = "done"
        /\ result[i] = "fail"
        /\ ~cancel_seen
        /\ <<"timeout", timeout_seconds>> \in sink[i]
        /\ child[i] = "exit1"

\* C6 as stated: timeout and cancellation are both two-phase; on neither path
\* is a forced kill the first signal a child receives.
C6_KillNeverFirst ==
    \A i \in Inv : siglog[i] # <<>> => Head(siglog[i])[2] = "term"

\* C6, amended: only cancellation is two-phase.  cancel_build starts by calling
\* terminate() and calls kill() only from the handler of the timed-out
\* wait(timeout=5) that follows it; the worker's timeout handler calls kill()
\* and never terminate(); nothing else signals a child.
C6_OnlyCancelTwoPhase ==
    [][ /\ (ui_pc' = "cancel_wait" /\ ui_pc # "cancel_wait")
            => /\ ui_pc = "idle"
               /\ siglog'[current_process] =
                      Append(siglog[current_process], SigCall("ui", "term"))
        /\ (ui_pc' = "cancel_kill" /\ ui_pc # "cancel_kill")
            => ui_pc = "cancel_wait" /\ siglog' = siglog
        /\ \A i \in Inv :
               Len(siglog'[i]) > Len(siglog[i])
                   => \/ /\ siglog'[i] = Append(siglog[i], SigCall("ui", "term"))
                         /\ ui_pc = "idle" /\ ui_pc' = "cancel_wait"
                      \/ /\ siglog'[i] = Append(siglog[i], SigCall("ui", "kill"))
                         /\ ui_pc = "cancel_kill"
                      \/ /\ siglog'[i] = Append(siglog[i], SigCall("worker", "kill"))
                         /\ wpc[i] = "kill"
      ]_vars

C6_Witness ==
    \E i \in Inv :
        /\ siglog[i] = <<SigCall("ui", "term"), SigCall("ui", "kill")>>
        /\ "cancelled" \in Reported(i)

\* C7: when the timeout elapses while the build is being cancelled, the child
\* receives at most one forced kill, only one component signals it, the worker
\* meets no error, and exactly one cause (timeout or cancelled) is reported.
C7_OneKillOneCause ==
    \A i \in Inv :
        /\ Cardinality({k \in 1..Len(siglog[i]) : siglog[i][k][2] = "kill"}) <= 1
        /\ Cardinality({c[1] : c \in Signals(i)}) <= 1
        /\ ~(TimedOut(i) /\ "error" \in Said(i))
        /\ ~("timeout" \in Said(i) /\ "cancelled" \in Reported(i))

C9_LaunchErrorNoChild ==
    \A i \in Inv : result[i] = "fail0" => ~Alive(i)

\* C10: at most one build is active at any time: at most one worker thread is
\* running and at most one child process is alive.
C10_OneBuildActive ==
    /\ Cardinality({i \in Inv : wpc[i] \notin {"idle", "done"}}) <= 1
    /\ Cardinality({i \in Inv : Alive(i)}) <= 1

\* C11: every build that spawned a child comes to the end of its worker (it
\* returns a result or leaves with the sink's exception), even if the child
\* never exits by itself and even if a reader stays blocked forever: the
\* worker waits for the child at most timeout_seconds and for each reader at
\* most the bounded join.
\* A worker at "done" stays there and a spawned child stays spawned, so the
\* property is: again and again, every build that spawned a child is at the
\* end of its worker.
C11_WorkerReturns ==
    []<>(\A i \in Inv : child[i] # "none" => wpc[i] = "done")

C11_Witness ==
    \E i \in Inv :
        /\ wpc[i] = "done"
        /\ result[i] = "fail"
        /\ siglog[i] = <<SigCall("worker", "kill")>>
        /\ \A s \in Streams : rd[i][s] = "run"

\* C12: within one stream the sink receives the child's lines in exactly the
\* order the child wrote them, each line once, every stdout line tagged
\* is_error=False and every stderr line tagged is_error=True; the order
\* between the two streams is free.
C12_StreamOrderAndTag ==
    \A s \in Streams : InOrder(s)

\* Both streams delivered in full, a stderr line ahead of a stdout line the
\* child wrote before it.
C12_Witness ==
    /\ \A s \in Streams : Len(FromStream(s)) = MaxLines
    /\ \E j, k \in 1..Len(events) :
           /\ j < k
           /\ events[j] = Event(<<"err", 1>>, TRUE)
           /\ events[k] = Event(<<"out", 1>>, FALSE)
    /\ pipe["err"] = <<>>

\* C13 as stated: given a child that writes N lines to stdout and M to stderr
\* and then exits, by the time the run reports its result the sink has
\* received all N stdout lines and all M stderr lines, in order and tagged.
C13_AllLinesAtReport ==
    RunReported =>
        \A s \in Streams : InOrder(s) /\ Len(FromStream(s)) = Len(emitted[s])

\* C13, amended: by the time the run reports its result the sink has received
\* from each stream a prefix of its lines, in order and tagged; it has all
\* the lines of a stream whose reader reached end-of-file, and may have fewer
\* of a stream whose reader was still running when its join ended or was
\* ended by an exception of the sink.  Tagged normal it has also received
\* the executor's two launch messages and, after exit status 0, its summary.
C13_LinesOfFinishedReaders ==
    RunReported =>
        /\ \A s \in Streams :
               /\ InOrder(s)
               /\ thread[s] = "done" => Len(FromStream(s)) = Len(emitted[s])
        /\ FromExecutor(FALSE) =
               <<Event(MsgCommand, FALSE), Event(MsgWorkDir, FALSE)>>
               \o (IF proc = "exit0" THEN <<Event(MsgSuccess, FALSE)>> ELSE <<>>)

C13_Witness ==
    /\ epc = "ret_ok"
    /\ \A s \in Streams :
           /\ thread[s] = "done"
           /\ Len(emitted[s]) = MaxLines
           /\ Len(FromStream(s)) = MaxLines

\* C14: for every byte string decode_bytes returns a string and never raises;
\* the string is the decoding under the first encoding of the list (UTF-8,
\* then GBK and cp936, then latin1) that accepts the bytes; and it is no
\* longer than the string obtained by substituting the undecodable bytes
\* (the decoding with errors='replace').
C14_DecodeFirstAcceptedAndShort ==
    dpc # "raised" /\
    (dpc = "returned" =>
        /\ \E k \in 1..Len(encodings) :
               /\ Decode(encodings[k], byte_data) = Decoded(line)
               /\ \A j \in 1..(k - 1) : ~Decode(encodings[j], byte_data).ok
        /\ Len(line) <= Len(DecodeReplace(byte_data)))

\* C15: the logger of each build receives start, then exactly one of success
\* or failure, then exactly one finalize (output lines, which come in
\* between, are not recorded in logs), and it is finalized by a callback of
\* its own build only: whenever a logger has been finalized, the outcome of
\* its own build has been reported.
C15_LoggerSequenceOwnBuild ==
    \A l \in Inv :
        /\ logs[l] \in {<<>>, <<"start">>,
                        <<"start", "success", "finalize">>,
                        <<"start", "failure", "finalize">>}
        /\ "finalize" \in {logs[l][k] : k \in 1..Len(logs[l])} => reports[l] # <<>>

\* The root the resolution order gives from the configuration, the
\* environment and the disk as they are now: the configured path when it is
\* set and exists, else the environment variable when it is set and exists.
Resolved(root) ==
    IF paths[root] # <<>> /\ paths[root] \in disk THEN paths[root]
    ELSE IF EnvName(root) \in DOMAIN environ /\ environ[EnvName(root)] \in disk
    THEN environ[EnvName(root)]
    ELSE None

\* The runtime and the build tool are usable with the roots the executor holds.
RuntimeOK == java_home \in Dirs /\ java_exe(java_home) \in disk
BuildToolOK ==
    /\ ant_home \in Dirs
    /\ ant_launcher(ant_home) \in disk \/ ant_bat(ant_home) \in disk
MissingRuntime == {MsgNoJavaHome, MsgNoJavaExe}
MissingBuildTool == {MsgNoAntHome, MsgNoLauncher}

\* The tokens of the parent's option variable v that do not force the
\* native-path charset, in order.
OptSet == {OptVars[k] : k \in 1..Len(OptVars)}
NotFlag(t) == t[1] # Flag
Kept(v) == SelectSeq(split(environ[v]), NotFlag)

\* Everything of the child's environment but the option variables: the
\* parent's environment is untouched, JAVA_HOME and ANT_HOME are the roots,
\* every other variable is inherited as it is.
Inherited(e) ==
    /\ DOMAIN e \ OptSet = (DOMAIN environ \ OptSet) \cup {"JAVA_HOME", "ANT_HOME"}
    /\ e["JAVA_HOME"] = java_home
    /\ e["ANT_HOME"] = ant_home
    /\ \A n \in DOMAIN environ \ (OptSet \cup {"JAVA_HOME", "ANT_HOME"}) :
           e[n] = environ[n]

\* C16: the toolchain roots are re-resolved on each invocation: an invocation
\* validates with the roots that the configuration, the environment and the
\* disk give at that time, and launches with the same roots.
C16_RootsResolvedPerInvocation ==
    [][tpc' = "invoked" =>
          /\ used' = [java |-> Resolved("java"), ant |-> Resolved("ant")]
          /\ validated'[1] => launched' = used']_allvars

\* C17: for each root the resolution returns the configured path when it is
\* set and exists on disk, otherwise the environment variable when it is set
\* and exists on disk, otherwise nothing; the configured path wins when both
\* are valid.
C17_ResolutionOrder ==
    [][tpc = "new" /\ tpc' = "ready" =>
          /\ java_home' = Resolved("java")
          /\ ant_home' = Resolved("ant")]_allvars

\* The runtime root came from JAVA_HOME because the configured path does not
\* exist, the build-tool root is the configured one although another valid
\* ANT_HOME is set, and an invocation has run.
C17_Witness ==
    /\ tpc = "invoked"
    /\ java_home \in Dirs /\ ant_home \in Dirs
    /\ "JAVA_HOME" \in DOMAIN environ /\ java_home = environ["JAVA_HOME"]
    /\ ant_home = paths["ant"]
    /\ "ANT_HOME" \in DOMAIN environ
    /\ environ["ANT_HOME"] # ant_home /\ environ["ANT_HOME"] \in disk
    /\ validated[1]

\* C18: validate_environment succeeds exactly when the runtime root is
\* resolved with its java executable present and the build-tool root is
\* resolved with ant-launcher.jar or ant.bat present; it gives a
\* missing-runtime reason when the runtime condition fails and a
\* missing-build-tool reason when only the build-tool condition fails; and
\* invoked again on the same inputs it gives the same result.
C18_ValidateEnvironment ==
    [][tpc' = "invoked" =>
          /\ validated'[1] <=> (RuntimeOK' /\ BuildToolOK')
          /\ ~RuntimeOK' => validated'[2] \in MissingRuntime
          /\ RuntimeOK' /\ ~BuildToolOK' => validated'[2] \in MissingBuildTool
          /\ tpc = "invoked" => validated' = validated]_allvars

\* Only the build tool fails: the runtime is usable, the build-tool root is
\* resolved and has neither launcher.
C18_Witness ==
    /\ tpc = "invoked"
    /\ RuntimeOK
    /\ ant_home \in disk
    /\ validated = <<FALSE, MsgNoLauncher>>

\* C19: the command is java -jar ant-launcher.jar -f <file> whenever
\* ant-launcher.jar exists and ant.bat -f <file> only when it does not; the
\* target is its last argument exactly when the requested target is not
\* empty, and the first choice of the target box requests the empty target,
\* never the default target build.xml declares.
C19_CommandLine ==
    lpc = "command" =>
        LET launcher == IF ant_launcher(ant_home) \in disk
                        THEN <<java_exe(java_home), <<"-jar">>,
                               ant_launcher(ant_home), <<"-f">>, build_file>>
                        ELSE <<ant_bat(ant_home), <<"-f">>, build_file>>
        IN  /\ selected_target # <<>> => cmd = launcher \o <<selected_target>>
            /\ selected_target = <<>> => cmd = launcher
            /\ selected = DefaultChoice =>
                   selected_target = <<>> /\ \A k \in 1..Len(cmd) : cmd[k] # default_target
            /\ selected # DefaultChoice => selected_target = selected

\* The default choice with both launchers on disk: the portable launcher
\* and no target argument.
C19_Witness ==
    /\ lpc = "command"
    /\ selected = DefaultChoice
    /\ ant_launcher(ant_home) \in disk /\ ant_bat(ant_home) \in disk
    /\ Len(cmd) = 5

\* C20 as stated: the child's environment is the parent's with JAVA_HOME and
\* ANT_HOME set to the roots and, in each option variable, the tokens
\* forcing the native-path charset removed and the others kept in order; an
\* option variable left with no tokens is removed; everything else, and the
\* parent's environment, is unchanged.
C20_ChildEnvAsStated ==
    [][lpc' = "spawn" =>
          /\ environ' = environ
          /\ Inherited(env')
          /\ \A v \in OptSet :
                 IF v \notin DOMAIN environ \/ Kept(v) = <<>>
                 THEN v \notin DOMAIN env'
                 ELSE v \in DOMAIN env' /\ split(env'[v]) = Kept(v)]_allvars

\* C20, amended: as above, except that an option variable whose value is
\* already empty in the parent's environment is inherited empty; a variable
\* with a non-empty value that is left with no tokens is removed, and the
\* tokens kept are separated by single blanks.
C20_ChildEnv ==
    [][lpc' = "spawn" =>
          /\ environ' = environ
          /\ Inherited(env')
          /\ \A v \in OptSet :
                 IF v \notin DOMAIN environ THEN v \notin DOMAIN env'
                 ELSE IF environ[v] = <<>> THEN v \in DOMAIN env' /\ env'[v] = <<>>
                 ELSE IF Kept(v) = <<>> THEN v \notin DOMAIN env'
                 ELSE v \in DOMAIN env' /\ env'[v] = join(Kept(v))
                                        /\ split(env'[v]) = Kept(v)]_allvars

\* One option variable held only the charset token and is gone, another one
\* lost the token between two others, JAVA_HOME was overridden.
C20_Witness ==
    /\ lpc = "spawn"
    /\ env["JAVA_HOME"] # environ["JAVA_HOME"]
    /\ \E v, w \in OptSet :
           /\ v \in DOMAIN environ /\ environ[v] = <<Flag>> /\ v \notin DOMAIN env
           /\ w \in DOMAIN environ /\ environ[w] = <<"x", " ", Flag>>
           /\ w \in DOMAIN env /\ env[w] = <<"x">>

\* C30: the completion callback of a build (build_completed or build_error
\* queued by its worker) changes only state of that build: when it runs
\* after a newer build has been started, it leaves is_building alone, leaves
\* current_process alone unless it still refers to its own child, and
\* leaves the logger of the newer build alone.
C30_CallbackOwnBuildOnly ==
    [][\A i \in Inv :
          (i < nbuilds /\ Len(reports'[i]) > Len(reports[i])) =>
              /\ is_building' = is_building
              /\ current_process # i => current_process' = current_process
              /\ build_logger' = build_logger
              /\ logs'[nbuilds] = logs[nbuilds]]_allvars

\* C28: the readers ending while the child is alive does not end the
\* invocation: execute_ant_command_realtime returns only after it has seen
\* the child exit or after the timeout; and a reader closes its pipe when,
\* and only when, that pipe has reached end-of-file.
C28_ReadersDoNotEndRun ==
    /\ RunReported => proc \in {"exit0", "exit1"} \/ epc = "ret_timeout"
    /\ proc = "alive" => epc \in {"pre", "wait"}
    /\ \A s \in Streams :
           /\ rclosed[s] <=> thread[s] = "done"
           /\ rclosed[s] => pipe[s] = <<>> /\ ~wopen[s]
                            /\ Len(FromStream(s)) = Len(emitted[s])

\* The child has closed both pipes and runs on; read_stdout has reached
\* end-of-file and closed its pipe, read_stderr was ended by an exception
\* and has not; the invocation is still waiting for the child.
C28_Witness ==
    /\ proc = "alive"
    /\ epc = "wait"
    /\ thread["out"] = "done" /\ rclosed["out"]
    /\ thread["err"] = "failed" /\ ~rclosed["err"]
    /\ \A s \in Streams : ~wopen[s]

\* The places in the text of build.xml of the opening tags of the target
\* elements below the root that declare a name which is not empty.
NamedTargets ==
    {p \in 2..Len(build_xml.text) :
        /\ IsOpen(build_xml.text[p])
        /\ build_xml.text[p][2] = "target"
        /\ "name" \in DOMAIN build_xml.text[p][3]
        /\ build_xml.text[p][3]["name"] # ""}

\* The place in the list of targets of the target declared at p.
Rank(p) == Cardinality({q \in NamedTargets : q <= p})

\* parse_build_file has returned a result without error.
Parsed == ppc = "returned" /\ build_info.error = NoError

C22_ErrorFieldTellsSuccess ==
    ppc = "returned" =>
        /\ build_info.error = NoError <=>
               (build_xml.state = "file" /\ WellFormed(build_xml.text))
        /\ build_xml.state = "missing" => build_info.error = ErrNotFound
        /\ build_xml.state = "unreadable" => build_info.error = ErrOther
        /\ (build_xml.state = "file" /\ ~WellFormed(build_xml.text)) =>
               build_info.error = ErrParse
        /\ build_info.error # NoError =>
               build_info.targets = <<>> /\ build_info.descriptions = <<>>

\* A file that holds a document without its last closing tag.
C22_Witness ==
    /\ ppc = "returned"
    /\ build_xml.state = "file"
    /\ Len(build_xml.text) > 2
    /\ ~WellFormed(build_xml.text)
    /\ build_info.error = ErrParse

\* C23: on a parsed build.xml the project name is "Unknown Project" when the
\* root has no name, the default target is "" when the root has no default,
\* a target without name or with an empty name adds nothing, and a target
\* without description or with an empty one gets "Target: {name}".
C23_Defaults ==
    Parsed =>
        LET root == build_xml.text[1] IN
        /\ build_info.project_name =
               (IF "name" \in DOMAIN root[3] THEN root[3]["name"] ELSE "Unknown Project")
        /\ build_info.default_target =
               (IF "default" \in DOMAIN root[3] THEN root[3]["default"] ELSE "")
        /\ Len(build_info.targets) = Cardinality(NamedTargets)
        /\ Len(build_info.descriptions) = Cardinality(NamedTargets)
        /\ \A p \in NamedTargets :
               LET declared == build_xml.text[p][3] IN
               build_info.descriptions[Rank(p)] =
                   (IF "description" \in DOMAIN declared /\ declared["description"] # ""
                    THEN <<declared["description"]>>
                    ELSE <<"Target: ", declared["name"]>>)

\* A root without attributes, a target without name, one with an empty
\* description and one with a description.
C23_Witness ==
    /\ Parsed
    /\ build_info.project_name = "Unknown Project"
    /\ build_info.default_target = ""
    /\ build_info.targets = <<"a", "b">>
    /\ build_info.descriptions = <<<<"Target: ", "a">>, <<"d">>>>
    /\ \E p \in 2..Len(build_xml.text) : build_xml.text[p] = Open("target", <<>>)
    /\ \E p \in 2..Len(build_xml.text) :
           build_xml.text[p] = Open("target", [name |-> "a", description |-> ""])

\* The keys a get is asked for: those of the calls, of the built-in
\* configuration, and the root keys.
ProbeKeys ==
    DottedKeys \cup ({i[1] : i \in DefaultItems} \ {<<>>}) \cup {HomeKey(r) : r \in Roots}

\* Neither key is the other or on the path to it.
Unrelated(a, b) == ~IsPrefix(a, b) /\ ~IsPrefix(b, a)

\* What get(key) returns on the configuration t when no default is given.
Seen(t, key) == get(t, key, Leaf(None))

\* The step is a call of op.
Called(op) == lastcall'.op = op /\ ncalls' = ncalls + 1

\* C24: after set(key, value) a get(key) returns value, and get of a key on
\* an unrelated path returns what it returned before; set returns for every
\* key.
C24_SetGetRoundTrip ==
    [][Called("set") =>
          LET i == lastcall'.on
              key == lastcall'.key
          IN  /\ lastcall'.exc = NoExc
              /\ Seen(cfg'[i].tree, key).value = lastcall'.arg
              /\ \A other \in ProbeKeys :
                     Unrelated(key, other) =>
                         Seen(cfg'[i].tree, other) = Seen(cfg[i].tree, other)]_allvars

\* C25: get returns without exception and leaves every configuration as it
\* was; it returns the value at the path when the path exists, and the
\* default given when the path is missing or runs through a value that is
\* not a mapping.
C25_GetNeverRaises ==
    [][Called("get") =>
          LET t == cfg[lastcall'.on].tree
              key == lastcall'.key
          IN  /\ lastcall'.exc = NoExc
              /\ cfg' = cfg
              /\ lastcall'.out =
                     (IF key \in DOMAIN t THEN Subtree(t, key) ELSE lastcall'.arg)]_allvars

\* get of 'paths.ant_home.x' with a default, 'paths.ant_home' being a string.
C25_Witness ==
    /\ lastcall.op = "get"
    /\ lastcall.key = <<"paths", "ant_home", "x">>
    /\ <<"paths", "ant_home">> \in DOMAIN cfg["config1"].tree
    /\ cfg["config1"].tree[<<"paths", "ant_home">>] # Mapping
    /\ lastcall.out = Leaf(<<"default">>)

JsonNative(t) == \A p \in DOMAIN t : t[p] \notin {Tuple, Opaque}

C27_DefaultsOnBadFile ==
    [][\A i \in Instances :
          (/\ ~cfg[i].built /\ cfg'[i].built
           /\ settings.state \in {"missing", "unparseable", "unreadable"}) =>
              /\ lastcall'.exc = NoExc
              /\ cfg'[i].tree = DefaultConfig
              /\ {<<"menu_config">>, <<"ant_config">>, <<"paths">>} \subseteq DOMAIN cfg'[i].tree
              /\ Seen(cfg'[i].tree, <<"ant_config", "timeout_seconds">>).value = Leaf(<<"300">>)
              /\ settings' = settings]_allvars

\* The second instance constructed on a file cut short by a failed save.
C27_Witness ==
    /\ lastcall.op = "init" /\ lastcall.on = "config2"
    /\ settings = Garbage
    /\ cfg["config2"].tree = DefaultConfig
    /\ cfg["config1"].tree # DefaultConfig

\* C29: get_ant_home / get_java_home returns without exception a path or
\* nothing; it changes the configuration only by storing the path found in
\* the environment under the key of the root, when the configured path is
\* not usable; no other key changes.
C29_ResolveFrame ==
    [][Called("home") =>
          LET i == lastcall'.on
              key == lastcall'.key
              t == cfg[i].tree
              configured == Seen(t, key).value
          IN  /\ lastcall'.exc = NoExc
              /\ lastcall'.out = Leaf(None) \/ IsStr(lastcall'.out)
              /\ \A j \in Instances \ {i} : cfg'[j] = cfg[j]
              /\ \A other \in ProbeKeys :
                     Unrelated(key, other) =>
                         Seen(cfg'[i].tree, other) = Seen(t, other)
              /\ cfg'[i].tree # t =>
                     /\ ~(TruthyValue(configured) /\ IsStr(configured)
                             /\ exists(configured[<<>>]))
                     /\ lastcall'.out # Leaf(None)
                     /\ Seen(cfg'[i].tree, key).value = lastcall'.out
              /\ UNCHANGED <<settings, environ, disk>>]_allvars


\* C37: in every result of parse_build_file the two lists have the same
\* length and the description at each place is the one of the target at
\* that place: the one the element declares, or "Target: " and the name at
\* that place; for a missing file and for malformed markup both are empty.
C37_ListsAligned ==
    ppc = "returned" =>
        /\ Len(build_info.targets) = Len(build_info.descriptions)
        /\ \A p \in NamedTargets :
               LET declared == Attr(build_xml.text[p], "description", "") IN
               build_info.error = NoError =>
                   build_info.descriptions[Rank(p)] =
                       (IF declared # "" THEN <<declared>>
                        ELSE <<"Target: ", build_info.targets[Rank(p)]>>)
        /\ (build_info.error \in {ErrNotFound, ErrParse}) =>
               build_info.targets = <<>> /\ build_info.descriptions = <<>>

\* A target without name between two named ones, the first with a
\* description and the last without: the descriptions are those of the two
\* named ones.
C37_Witness ==
    /\ Parsed
    /\ Cardinality({p \in 2..Len(build_xml.text) :
                       IsOpen(build_xml.text[p]) /\ build_xml.text[p][2] = "target"}) = 3
    /\ build_info.targets = <<"b", "a">>
    /\ build_info.descriptions = <<<<"d">>, <<"Target: ", "a">>>>


\* C33: a reader stops reading its pipe at end-of-file only, also when the
\* sink has raised on a line: a reader that has stopped has left nothing in
\* the pipe and nobody can write to the pipe any more.
C33_ReaderReadsToEnd ==
    \A s \in Streams :
        thread[s] \in {"done", "failed"} => pipe[s] = <<>> /\ ~wopen[s]


\* The positions between "if self.build_logger:" and the call of log_output.
BetweenCheckAndUse == {"env_use", "pre_use", "sum_use", "tmo_use", "err_use"}

\* C32: output_callback never fails on the logger: when a thread that found
\* build_logger set goes on to call log_output, build_logger is still set.
C32_SinkNeverFails ==
    [][\A i \in Inv :
          (wpc[i] \in BetweenCheckAndUse /\ wpc'[i] # wpc[i]) =>
              build_logger # 0]_allvars


\* C34: an invocation whose cancellation was accepted and reported is never
\* reported successful afterwards: "success" never follows "cancelled" in
\* the reports of one invocation.
C34_CancelledNeverSucceeds ==
    \A i \in Inv : \A k \in 1..Len(reports[i]) : \A l \in 1..Len(reports[i]) :
        (k < l /\ reports[i][k] = "cancelled") => reports[i][l] # "success"


\* The positions of the build thread from which it can still reach Popen.
BeforeSpawn == {"validate", "pre_use", "spawn"}

\* The UI thread adds a signal to the record of handle h in this step.
UiSignals(h) ==
    /\ Len(siglog'[h]) = Len(siglog[h]) + 1
    /\ siglog'[h][Len(siglog'[h])][1] = "ui"

\* C31: cancel_build signals the child of the invocation in progress only,
\* and when it reports the cancellation that invocation has no live child
\* and cannot start one any more.
C31_CancelsCurrentChild ==
    [][/\ \A h \in Inv : UiSignals(h) => h = nbuilds
       /\ \A i \in Inv :
              (i = nbuilds /\ reports'[i] = Append(reports[i], "cancelled")) =>
                  /\ child'[i] # "alive"
                  /\ wpc'[i] \notin BeforeSpawn]_allvars


\* is_building and the four controls agree.
ControlsConsistent ==
    controls = (IF is_building THEN ControlsBuilding ELSE ControlsReady)

\* C36: whenever the UI thread is between two events, is_building is true
\* exactly when the build button is disabled, the cancel button enabled, the
\* target selector disabled and the progress bar running; a step that leaves
\* is_building alone (a rejected start_build among them) changes no control.
C36_ControlsFollowIsBuilding ==
    [][/\ ui_pc = "idle" => ControlsConsistent
       /\ ui_pc' = "idle" => ControlsConsistent'
       /\ is_building' = is_building => controls' = controls]_allvars

\* A build was started and cancelled: the controls went to the building
\* configuration and are back in the ready one.
C36_Witness ==
    /\ ui_pc = "idle"
    /\ reports[1] = <<"cancelled">>
    /\ ~is_building
    /\ controls = ControlsReady
    /\ controls # ControlsBuilding


----------------------------------------------------------------------------
(* Closing the window.  close_application asks for confirmation only while  *)
(* is_building is set and then destroys the root window: mainloop returns   *)
(* and the interpreter ends, which ends the build thread and the readers    *)
(* (all three are daemon threads).  The child of the build is a process of  *)
(* its own and is sent no signal.                                           *)

\* messagebox.askyesno answers confirm; root.destroy().
close_application ==
    /\ ui_pc = "idle"
    /\ \E confirm \in BOOLEAN :
          ui_pc' = IF is_building /\ ~confirm THEN "idle" ELSE "closed"
    /\ UNCHANGED <<is_building, current_process, build_logger, status, nbuilds,
                   cancel_seen, controls, afterq, procs, worker, reports, logs>>

WindowOpen == ui_pc # "closed"

NextClose ==
    \/ UNCHANGED aux /\ WindowOpen /\ start_build(MaxRuns)
    \/ UNCHANGED aux /\ WindowOpen /\ cancel_build
    \/ UNCHANGED aux /\ WindowOpen /\ cancel_wait_done
    \/ UNCHANGED aux /\ WindowOpen /\ cancel_wait_timeout
    \/ UNCHANGED aux /\ WindowOpen /\ cancel_kill
    \/ UNCHANGED aux /\ WindowOpen /\ run_after
    \/ UNCHANGED aux /\ WindowOpen /\ \E i \in Inv : Worker(i)
    \/ UNCHANGED aux /\ WindowOpen /\ \E i \in Inv, s \in Streams : reader_eof(i, s)
    \/ UNCHANGED aux /\ \E i \in Inv : ChildExit(i)
    \/ UNCHANGED aux /\ close_application

\* The window with up to MaxRuns builds until it is closed.
SpecClose == Start /\ [][NextClose]_allvars

\* C35: once the window was closed during a build, with the close confirmed,
\* no child build process is running.
C35_CloseLeavesNoChild ==
    (ui_pc = "closed" /\ is_building) => \A i \in Inv : ~Alive(i)

====
